---- MODULE Spec2Model ----
(***************************************************************************)
(* A model of dnsfserv (the DNS file server, src/dnsfserv.go) and of its   *)
(* client library dnsfservget (src/dnsfservget/dnsfservget.go).            *)
(*                                                                         *)
(* Text (DNS names, IP addresses, base64) is a sequence of one-character   *)
(* strings; bytes are integers in 0..255.                                  *)
(***************************************************************************)
EXTENDS Integers, Sequences, FiniteSets, TLC

(***************************************************************************)
(* Bounds of the model.                                                    *)
(***************************************************************************)
\* Width, in bits, of the unsigned integers that hold file offsets (Go's
\* uint and uint64), scaled down so that wrap-around is within reach.
UintBits == 10
UintMod == 2 ^ UintBits
\* Number of NextName calls made on one Getter without a transfer.
MaxCalls == 3
\* Small files have 0..MaxFileLen bytes.
MaxFileLen == 7
\* Byte budgets (Getter.Max) go up to MaxChunks chunks, give or take a byte.
MaxChunks == 2

(***************************************************************************)
(* Characters and strings.                                                 *)
(***************************************************************************)
Digits36 ==
    << "0", "1", "2", "3", "4", "5", "6", "7", "8", "9",
       "a", "b", "c", "d", "e", "f", "g", "h", "i", "j", "k", "l", "m",
       "n", "o", "p", "q", "r", "s", "t", "u", "v", "w", "x", "y", "z" >>

UpperCase ==
    << "A", "B", "C", "D", "E", "F", "G", "H", "I", "J", "K", "L", "M",
       "N", "O", "P", "Q", "R", "S", "T", "U", "V", "W", "X", "Y", "Z" >>

\* unicode.ToLower on the characters of the model
ToLowerCh(c) ==
    IF \E i \in 1..26 : UpperCase[i] = c
    THEN Digits36[10 + (CHOOSE i \in 1..26 : UpperCase[i] = c)]
    ELSE c

\* strings.ToLower
ToLower(s) == [i \in 1..Len(s) |-> ToLowerCh(s[i])]

\* strings.Index for a one-character separator: 0 when absent
Index(s, c) ==
    IF \E i \in 1..Len(s) : s[i] = c
    THEN CHOOSE i \in 1..Len(s) : s[i] = c /\ \A j \in 1..(i - 1) : s[j] # c
    ELSE 0

\* strings.SplitN(s, c, 2): at most two parts, cut at the first c
SplitN2(s, c) ==
    LET i == Index(s, c) IN
    IF i = 0 THEN << s >>
    ELSE << SubSeq(s, 1, i - 1), SubSeq(s, i + 1, Len(s)) >>

\* strings.Split(s, c): every part between separators
RECURSIVE Split(_, _)
Split(s, c) ==
    LET i == Index(s, c) IN
    IF i = 0 THEN << s >>
    ELSE << SubSeq(s, 1, i - 1) >> \o Split(SubSeq(s, i + 1, Len(s)), c)

\* strings.Join(parts, c)
RECURSIVE Join(_, _)
Join(parts, c) ==
    IF Len(parts) = 0 THEN << >>
    ELSE IF Len(parts) = 1 THEN parts[1]
    ELSE parts[1] \o << c >> \o Join(Tail(parts), c)

\* strings.HasSuffix(s, c) for a one-character suffix
HasSuffix(s, c) == Len(s) > 0 /\ s[Len(s)] = c

(***************************************************************************)
(* strconv.FormatUint and strconv.ParseUint.                               *)
(***************************************************************************)
\* The value of a digit character, -1 if it is none.  ParseUint takes
\* letters of either case.
DigitVal(c) ==
    LET l == ToLowerCh(c) IN
    IF \E i \in 1..36 : Digits36[i] = l
    THEN (CHOOSE i \in 1..36 : Digits36[i] = l) - 1
    ELSE -1

\* strconv.FormatUint(n, base): no leading zeros, lower-case digits
RECURSIVE FormatUint(_, _)
FormatUint(n, base) ==
    IF n < base THEN << Digits36[n + 1] >>
    ELSE FormatUint(n \div base, base) \o << Digits36[(n % base) + 1] >>

\* The digits of s folded left to right from acc: -1 on a character that is
\* no digit of the base (syntax error), -2 once the value reaches limit
\* (range error).
RECURSIVE ParseDigits(_, _, _, _)
ParseDigits(s, base, limit, acc) ==
    IF Len(s) = 0 THEN acc
    ELSE LET d == DigitVal(s[1]) IN
         IF d < 0 \/ d >= base THEN -1
         ELSE IF acc * base + d >= limit THEN -2
         ELSE ParseDigits(Tail(s), base, limit, acc * base + d)

\* strconv.ParseUint(s, base, bitSize) with 2^bitSize = limit: the value, or
\* a negative number for an error (the empty string is a syntax error).
ParseUint(s, base, limit) ==
    IF Len(s) = 0 THEN -1 ELSE ParseDigits(s, base, limit, 0)

(***************************************************************************)
(* Query types and payload sizes (dnsfservget.go).                         *)
(***************************************************************************)
TypeA == "A"
TypeAAAA == "AAAA"
TypeTXT == "TXT"
\* A QType outside the supported three
TypeMX == "MX"
QTypes == { TypeA, TypeAAAA, TypeTXT, TypeMX }
Supported == { TypeA, TypeAAAA, TypeTXT }

\* QType.PayloadSize: the size, or 0 with err set for an unsupported type
PayloadSizeAWrong(t) ==
    CASE t = TypeA -> [n |-> 4, err |-> FALSE]
      [] t = TypeAAAA -> [n |-> 8, err |-> FALSE]
      [] t = TypeTXT -> [n |-> 160, err |-> FALSE]
      [] OTHER -> [n |-> 0, err |-> TRUE]

PayloadSize(t) ==
    CASE t = TypeA -> [n |-> 3, err |-> FALSE]
      [] t = TypeAAAA -> [n |-> 8, err |-> FALSE]
      [] t = TypeTXT -> [n |-> 160, err |-> FALSE]
      [] OTHER -> [n |-> 0, err |-> TRUE]

(***************************************************************************)
(* Getter.NextName.                                                        *)
(***************************************************************************)
\* The name with its offset written in base 10
QueryNameBase10(off, name, domain) ==
    FormatUint(off, 10) \o << "-" >> \o name \o << "." >> \o domain

\* fmt.Sprintf("%s-%s.%s", FormatUint(off, 36), Name, Domain)
QueryName(off, name, domain) ==
    FormatUint(off, 36) \o << "-" >> \o name \o << "." >> \o domain

\* NextName without the step that starts the cursor at StartOff
NextNameNoStart(gt) ==
    LET a == PayloadSize(gt.Type) IN
    IF a.err
    THEN [q |-> << >>, err |-> TRUE, off |-> gt.off]
    ELSE [q |-> QueryName(gt.off, gt.Name, gt.Domain), err |-> FALSE,
          off |-> (gt.off + a.n) % UintMod]

\* NextName on a Getter gt: the name (or err), and the cursor afterwards.
\* The cursor is set to StartOff whenever it is 0 and StartOff is not, before
\* the payload size is looked up, and wraps at the width of uint.
NextName(gt) ==
    LET off0 == IF gt.off = 0 /\ gt.StartOff # 0 THEN gt.StartOff ELSE gt.off
        a == PayloadSize(gt.Type)
    IN  IF a.err
        THEN [q |-> << >>, err |-> TRUE, off |-> off0]
        ELSE [q |-> QueryName(off0, gt.Name, gt.Domain), err |-> FALSE,
              off |-> (off0 + a.n) % UintMod]

(***************************************************************************)
(* path/filepath: Clean and Join (Unix separators).                        *)
(***************************************************************************)
Dot == << "." >>
DotDot == << ".", "." >>

\* The path elements kept by Clean, folded left to right onto stack: empty
\* and "." elements go, ".." removes the element before it when there is one
\* to remove, stays when the path is relative and is dropped at the root.
RECURSIVE CleanElems(_, _, _)
CleanElems(elems, stack, rooted) ==
    IF Len(elems) = 0 THEN stack
    ELSE LET e == elems[1]
             rest == Tail(elems)
         IN  IF e = << >> \/ e = Dot THEN CleanElems(rest, stack, rooted)
             ELSE IF e = DotDot
             THEN IF Len(stack) > 0 /\ stack[Len(stack)] # DotDot
                  THEN CleanElems(rest, SubSeq(stack, 1, Len(stack) - 1), rooted)
                  ELSE IF rooted THEN CleanElems(rest, stack, rooted)
                  ELSE CleanElems(rest, Append(stack, e), rooted)
             ELSE CleanElems(rest, Append(stack, e), rooted)

\* filepath.Clean
Clean(path) ==
    IF Len(path) = 0 THEN Dot
    ELSE LET rooted == path[1] = "/"
             kept == Join(CleanElems(Split(path, "/"), << >>, rooted), "/")
         IN  IF rooted THEN << "/" >> \o kept
             ELSE IF Len(kept) = 0 THEN Dot
             ELSE kept

\* filepath.Join(dir, name) for two elements: empty elements are ignored,
\* the rest joined with a separator and cleaned
FilepathJoin(dir, name) ==
    IF Len(dir) = 0 /\ Len(name) = 0 THEN << >>
    ELSE IF Len(dir) = 0 THEN Clean(name)
    ELSE IF Len(name) = 0 THEN Clean(dir)
    ELSE Clean(dir \o << "/" >> \o name)

(***************************************************************************)
(* The server's files.  The serving directory fdir holds one regular file, *)
(* ServedName; beside the serving directory lies a file that is not served.*)
(***************************************************************************)
\* The -dir flag
fdir == << "d" >>
ServedName == << "a" >>
ServedPath == << "d", "/", "a" >>
OutsidePath == << "s" >>

\* The bytes of a file of len bytes: byte i (from 0) is seed + i * step
FileBytes(len, seed, step) == [i \in 1..len |-> (seed + (i - 1) * step) % 256]

\* What lseek(SEEK_END) reports for the serving directory itself
DirLen == 2 ^ (UintBits - 1)

\* os.OpenFile(path, O_RDONLY): what the path names in the file system fs
OpenFile(path, fs) ==
    IF path = ServedPath
    THEN [ok |-> TRUE, kind |-> "file", len |-> fs.len,
          data |-> FileBytes(fs.len, fs.seed, fs.step)]
    ELSE IF path = fdir
    THEN [ok |-> TRUE, kind |-> "dir", len |-> DirLen, data |-> << >>]
    ELSE IF path = OutsidePath
    THEN [ok |-> TRUE, kind |-> "file", len |-> 1, data |-> << 255 >>]
    ELSE [ok |-> FALSE, kind |-> "none", len |-> 0, data |-> << >>]

\* f.Read(b) with len(b) = max at offset off of an open file: at most max
\* bytes, fewer at the tail; reading a directory is an error.
FileRead(f, off, max) ==
    LET last == IF off + max < f.len THEN off + max ELSE f.len IN
    IF f.kind = "dir" THEN [n |-> 0, data |-> << >>, err |-> "error"]
    ELSE IF off >= f.len THEN [n |-> 0, data |-> << >>, err |-> "EOF"]
    ELSE [n |-> last - off, data |-> SubSeq(f.data, off + 1, last), err |-> "nil"]

(***************************************************************************)
(* The server's handler (dnsfserv.go, handle).                             *)
(***************************************************************************)
ansAFirstByte == 3
ansTXTMax == 160
ansAAAAFirstHalf == << 38, 0, 144, 0, 83, 5, 206, 0 >>

\* b followed by zero bytes up to n bytes (a zeroed array read into)
ZeroPad(b, n) == [i \in 1..n |-> IF i <= Len(b) THEN b[i] ELSE 0]

\* The file name taken from the whole query name, not from its first label
ParseQueryWholeName(name) ==
    LET q == ToLower(name)
        parts == SplitN2(q, "-")
        foff == ParseUint(parts[1], 36, UintMod)
        bad(why) == [ok |-> FALSE, why |-> why, foff |-> 0, name |-> << >>,
                     fname |-> << >>]
    IN  IF Len(parts) # 2 THEN bad("format")
        ELSE IF Len(parts[1]) = 0 THEN bad("nooffset")
        ELSE IF foff < 0 THEN bad("offset")
        ELSE [ok |-> TRUE, why |-> "", foff |-> foff, name |-> parts[2],
              fname |-> Clean(parts[2])]

\* The parse with an offset that is not a number taken for offset 0
ParseQueryLax(name) ==
    LET q == ToLower(name)
        labels == SplitN2(q, ".")
        parts == SplitN2(labels[1], "-")
        foff == ParseUint(parts[1], 36, UintMod)
        bad(why) == [ok |-> FALSE, why |-> why, foff |-> 0, name |-> << >>,
                     fname |-> << >>]
    IN  IF Len(parts) # 2 THEN bad("format")
        ELSE IF Len(parts[1]) = 0 THEN bad("nooffset")
        ELSE [ok |-> TRUE, why |-> "", foff |-> IF foff < 0 THEN 0 ELSE foff,
              name |-> parts[2], fname |-> Clean(parts[2])]

\* Lines 173-200: the offset and the file name of a question's name.
\* why is "" when the name parses, else the reason it is dropped.
ParseQuery(name) ==
    LET q == ToLower(name)
        labels == SplitN2(q, ".")
        parts == SplitN2(labels[1], "-")
        foff == ParseUint(parts[1], 36, UintMod)
        bad(why) == [ok |-> FALSE, why |-> why, foff |-> 0, name |-> << >>,
                     fname |-> << >>]
    IN  IF Len(parts) # 2 THEN bad("format")
        ELSE IF Len(parts[1]) = 0 THEN bad("nooffset")
        ELSE IF foff < 0 THEN bad("offset")
        ELSE [ok |-> TRUE, why |-> "", foff |-> foff, name |-> parts[2],
              fname |-> Clean(parts[2])]

\* Line 227: the offset is at or beyond the end of the file
AtEOFStrict(foff, flen) == foff > flen

AtEOF(foff, flen) == foff >= flen

(***************************************************************************)
(* encoding/base64, RawStdEncoding (no padding).                           *)
(***************************************************************************)
B64Alphabet ==
    UpperCase \o SubSeq(Digits36, 11, 36) \o SubSeq(Digits36, 1, 10)
        \o << "+", "/" >>

B64Char(v) == B64Alphabet[v + 1]

\* The 6-bit value of a character, -1 if it is not in the alphabet
B64Val(c) ==
    IF \E i \in 1..64 : B64Alphabet[i] = c
    THEN (CHOOSE i \in 1..64 : B64Alphabet[i] = c) - 1
    ELSE -1

\* EncodeToString: three bytes make four characters; a tail of one byte
\* makes two characters and a tail of two bytes three, with no padding.
RECURSIVE B64Encode(_)
B64Encode(b) ==
    IF Len(b) = 0 THEN << >>
    ELSE IF Len(b) = 1
    THEN << B64Char(b[1] \div 4), B64Char((b[1] % 4) * 16) >>
    ELSE IF Len(b) = 2
    THEN << B64Char(b[1] \div 4),
            B64Char((b[1] % 4) * 16 + b[2] \div 16),
            B64Char((b[2] % 16) * 4) >>
    ELSE << B64Char(b[1] \div 4),
            B64Char((b[1] % 4) * 16 + b[2] \div 16),
            B64Char((b[2] % 16) * 4 + b[3] \div 64),
            B64Char(b[3] % 64) >>
         \o B64Encode(SubSeq(b, 4, Len(b)))

\* DecodedLen(n) without padding
B64DecodedLen(n) == (n * 6) \div 8

\* The bytes of text whose characters are all in the alphabet: four
\* characters make three bytes, a tail of two characters one byte and a
\* tail of three two bytes (the bits left over are dropped).
RECURSIVE B64Bytes(_)
B64Bytes(t) ==
    IF Len(t) < 2 THEN << >>
    ELSE LET v1 == B64Val(t[1])
             v2 == B64Val(t[2])
             b1 == v1 * 4 + v2 \div 16
         IN  IF Len(t) = 2 THEN << b1 >>
             ELSE LET v3 == B64Val(t[3])
                      b2 == (v2 % 16) * 16 + v3 \div 4
                  IN  IF Len(t) = 3 THEN << b1, b2 >>
                      ELSE << b1, b2, (v3 % 4) * 64 + B64Val(t[4]) >>
                           \o B64Bytes(SubSeq(t, 5, Len(t)))

\* Decode: fails on a character outside the alphabet and on a tail of one
\* character
B64Decode(t) ==
    IF (\E i \in 1..Len(t) : B64Val(t[i]) < 0) \/ Len(t) % 4 = 1
    THEN [ok |-> FALSE, data |-> << >>]
    ELSE [ok |-> TRUE, data |-> B64Bytes(t)]

(***************************************************************************)
(* handle: the response, if any, to one packet.                            *)
(*   pkt    the packet: kind "garbage" does not unpack; kind "msg" has     *)
(*          questions (name, type) and the answer records it carried       *)
(*   fs     the served file                                                *)
(*   fault  the file operation that fails for this request, if any         *)
(* The result says whether a response was sent, its result code and its    *)
(* answer records, the path opened and whether the file was read.          *)
(***************************************************************************)
Faults == { "none", "open", "size", "seek", "read", "readeof" }

\* The record built at lines 251-284 from the bytes read for type t
AnswerRR(t, data) ==
    CASE t = TypeA ->
           [type |-> t, body |-> << ansAFirstByte >> \o ZeroPad(data, 3),
            txt |-> << >>]
      [] t = TypeAAAA ->
           [type |-> t, body |-> ansAAAAFirstHalf \o ZeroPad(data, 8),
            txt |-> << >>]
      [] t = TypeTXT ->
           [type |-> t, body |-> << >>, txt |-> << B64Encode(data) >>]

\* The number of bytes the switch at line 256 asks f.Read for
ReadSize(t) ==
    CASE t = TypeA -> 3
      [] t = TypeAAAA -> 8
      [] t = TypeTXT -> ansTXTMax
      [] OTHER -> 0

NoResponse(why, path, opened, read) ==
    [sent |-> FALSE, rcode |-> "", answers |-> << >>, why |-> why,
     path |-> path, opened |-> opened, read |-> read]

\* sendEOF: the message, as it stands, with result code name error
SendEOF(pkt, path, read) ==
    [sent |-> TRUE, rcode |-> "NameError", answers |-> pkt.answers,
     why |-> "eof", path |-> path, opened |-> TRUE, read |-> read]

Handle(pkt, fs, fault) ==
    IF pkt.kind # "msg" THEN NoResponse("unpack", << >>, FALSE, FALSE)
    ELSE IF Len(pkt.questions) = 0
    THEN NoResponse("noquestion", << >>, FALSE, FALSE)
    ELSE
    LET pq == ParseQuery(pkt.questions[1].name)
        t == pkt.questions[1].type
        path == FilepathJoin(fdir, pq.fname)
        f == OpenFile(path, fs)
        \* f.Seek(0, SEEK_END): its error is logged and flen stays 0
        flen == IF fault = "size" THEN 0 ELSE f.len
        rd == IF fault = "read" THEN [n |-> 0, data |-> << >>, err |-> "error"]
              ELSE IF fault = "readeof"
              THEN [n |-> 0, data |-> << >>, err |-> "EOF"]
              ELSE FileRead(f, pq.foff, ReadSize(t))
    IN  IF ~pq.ok THEN NoResponse(pq.why, << >>, FALSE, FALSE)
        ELSE IF fault = "open" \/ ~f.ok THEN NoResponse("open", path, FALSE, FALSE)
        ELSE IF AtEOF(pq.foff, flen) THEN SendEOF(pkt, path, FALSE)
        ELSE IF fault = "seek" THEN NoResponse("seek", path, TRUE, FALSE)
        ELSE IF t \notin Supported THEN NoResponse("type", path, TRUE, FALSE)
        ELSE IF rd.err = "EOF" THEN SendEOF(pkt, path, TRUE)
        ELSE IF rd.err # "nil" THEN NoResponse("read", path, TRUE, TRUE)
        ELSE [sent |-> TRUE, rcode |-> "Success",
              answers |-> Append(pkt.answers, AnswerRR(t, rd.data)),
              why |-> "answer", path |-> path, opened |-> TRUE, read |-> TRUE]

(***************************************************************************)
(* net.IP: String and ParseIP.  An address is 4 or 16 bytes.               *)
(***************************************************************************)
v4InV6Prefix == << 0, 0, 0, 0, 0, 0, 0, 0, 0, 0, 255, 255 >>

\* IP.To4: the four bytes of an IPv4 address, << >> (nil) for any other
To4(ip) ==
    IF Len(ip) = 4 THEN ip
    ELSE IF Len(ip) = 16 /\ SubSeq(ip, 1, 12) = v4InV6Prefix
    THEN SubSeq(ip, 13, 16)
    ELSE << >>

\* IP.To16: the sixteen-byte form, << >> (nil) for a bad length
To16(ip) ==
    IF Len(ip) = 4 THEN v4InV6Prefix \o ip
    ELSE IF Len(ip) = 16 THEN ip
    ELSE << >>

\* The eight 16-bit groups of a sixteen-byte address
Groups(ip) == [i \in 1..8 |-> ip[2 * i - 1] * 256 + ip[2 * i]]

\* The run of zero groups that starts at group i: its length
RECURSIVE ZeroRun(_, _)
ZeroRun(gs, i) == IF i > 8 \/ gs[i] # 0 THEN 0 ELSE 1 + ZeroRun(gs, i + 1)

\* The longest run of zero groups, the first of them when several are as
\* long: its first group and its length (length 0 when there is none)
LongestZeroRun(gs) ==
    LET best == CHOOSE i \in 1..8 :
                  /\ \A j \in 1..8 : ZeroRun(gs, j) <= ZeroRun(gs, i)
                  /\ \A j \in 1..(i - 1) : ZeroRun(gs, j) < ZeroRun(gs, i)
    IN  [at |-> best, len |-> ZeroRun(gs, best)]

HexGroups(gs) == [i \in 1..Len(gs) |-> FormatUint(gs[i], 16)]

\* IP.String: dotted decimal for an IPv4 address (also one held in sixteen
\* bytes); else hexadecimal groups, the longest run of two or more zero
\* groups written "::".
IPString(ip) ==
    IF To4(ip) # << >>
    THEN LET p == To4(ip) IN
         Join([i \in 1..4 |-> FormatUint(p[i], 10)], ".")
    ELSE LET gs == Groups(ip)
             run == LongestZeroRun(gs)
         IN  IF run.len < 2 THEN Join(HexGroups(gs), ":")
             ELSE Join(HexGroups(SubSeq(gs, 1, run.at - 1)), ":")
                    \o << ":", ":" >>
                    \o Join(HexGroups(SubSeq(gs, run.at + run.len, 8)), ":")

\* One decimal field of an IPv4 address: 0..255 without a leading zero,
\* else -1
ParseV4Field(f) ==
    IF Len(f) = 0 \/ Len(f) > 3 \/ (Len(f) > 1 /\ f[1] = "0") THEN -1
    ELSE LET v == ParseUint(f, 10, 256) IN IF v < 0 THEN -1 ELSE v

\* parseIPv4: four decimal fields; the address in sixteen bytes, or << >>
ParseIPv4(s) ==
    LET fields == Split(s, ".") IN
    IF Len(fields) # 4 \/ \E i \in 1..4 : ParseV4Field(fields[i]) < 0
    THEN << >>
    ELSE v4InV6Prefix \o [i \in 1..4 |-> ParseV4Field(fields[i])]

\* One hexadecimal group of an IPv6 address: 0..65535, else -1
ParseV6Group(f) ==
    IF Len(f) = 0 \/ Len(f) > 4 THEN -1
    ELSE LET v == ParseUint(f, 16, 65536) IN IF v < 0 THEN -1 ELSE v

\* The bytes of a sequence of groups
RECURSIVE GroupBytes(_)
GroupBytes(gs) ==
    IF Len(gs) = 0 THEN << >>
    ELSE << gs[1] \div 256, gs[1] % 256 >> \o GroupBytes(Tail(gs))

\* parseIPv6 (without an embedded IPv4 address or a zone): groups between
\* colons, at most one "::" standing for one or more zero groups
ParseIPv6(s) ==
    LET f0 == Split(s, ":")
        lead == Len(s) > 0 /\ s[1] = ":"
        leadOK == ~lead \/ (Len(f0) >= 3 /\ f0[2] = << >>)
        f1 == IF lead /\ leadOK THEN Tail(f0) ELSE f0
        trail == HasSuffix(s, ":")
        trailOK == ~trail \/ (Len(f1) >= 2 /\ f1[Len(f1) - 1] = << >>)
        f2 == IF trail /\ trailOK THEN SubSeq(f1, 1, Len(f1) - 1) ELSE f1
        gaps == { i \in 1..Len(f2) : f2[i] = << >> }
        full == { i \in 1..Len(f2) : f2[i] # << >> }
        val(i) == ParseV6Group(f2[i])
        gap == CHOOSE i \in gaps : TRUE
        before == [i \in 1..(gap - 1) |-> val(i)]
        after == [i \in 1..(Len(f2) - gap) |-> val(gap + i)]
        zeros == [i \in 1..(8 - Cardinality(full)) |-> 0]
    IN  IF ~leadOK \/ ~trailOK \/ Cardinality(gaps) > 1 THEN << >>
        ELSE IF \E i \in full : val(i) < 0 THEN << >>
        ELSE IF gaps = { }
        THEN IF Len(f2) # 8 THEN << >>
             ELSE GroupBytes([i \in 1..8 |-> val(i)])
        ELSE IF Cardinality(full) > 7 THEN << >>
        ELSE GroupBytes(before \o zeros \o after)

\* ParseIP: IPv4 when a "." comes before any ":", IPv6 when a ":" comes
\* first, << >> (nil) when there is neither or the text does not parse
ParseIP(s) ==
    LET d == Index(s, ".")
        c == Index(s, ":")
    IN  IF d > 0 /\ (c = 0 \/ d < c) THEN ParseIPv4(s)
        ELSE IF c > 0 /\ d = 0 THEN ParseIPv6(s)
        ELSE << >>

(***************************************************************************)
(* Getter.DecodeResponse, decodeA and decodeTXT.                           *)
(***************************************************************************)
MaxDecode == 160

DecodeErr == [n |-> 0, data |-> << >>, err |-> TRUE]

\* copy(buf, src) into a buffer of buflen bytes: the bytes copied
CopyInto(buflen, src) ==
    IF Len(src) <= buflen THEN src ELSE SubSeq(src, 1, buflen)

\* decodeA, the payload starting one byte too early in an A record
decodeAOffByOne(t, buflen, text) ==
    LET ip == IF t = TypeA THEN To4(ParseIP(text)) ELSE To16(ParseIP(text))
        data == CopyInto(buflen, IF t = TypeA THEN ip ELSE SubSeq(ip, 9, 16))
    IN  IF ip = << >> THEN DecodeErr
        ELSE [n |-> Len(data), data |-> data, err |-> FALSE]

\* decodeA for a Getter of type t (A or AAAA)
decodeA(t, buflen, text) ==
    LET parsed == ParseIP(text)
        ip == IF t = TypeA THEN To4(parsed) ELSE To16(parsed)
        plen == IF t = TypeA THEN 4 ELSE 16
        start == IF t = TypeA THEN 1 ELSE 8
        data == CopyInto(buflen, SubSeq(ip, start + 1, Len(ip)))
    IN  IF parsed = << >> THEN DecodeErr
        ELSE IF ip = << >> THEN DecodeErr
        ELSE IF plen > buflen THEN DecodeErr
        ELSE [n |-> Len(data), data |-> data, err |-> FALSE]

\* decodeTXT
decodeTXT(buflen, text) ==
    LET d == B64Decode(text) IN
    IF B64DecodedLen(Len(text)) > buflen THEN DecodeErr
    ELSE IF ~d.ok THEN DecodeErr
    ELSE [n |-> Len(d.data), data |-> d.data, err |-> FALSE]

\* DecodeResponse for a Getter of type t into a buffer of buflen bytes
DecodeResponse(t, buflen, text) ==
    CASE t \in { TypeA, TypeAAAA } -> decodeA(t, buflen, text)
      [] t = TypeTXT -> decodeTXT(buflen, text)
      [] OTHER -> DecodeErr

(***************************************************************************)
(* State.                                                                  *)
(***************************************************************************)
VARIABLES
    fs,      \* the served file: its length and the pattern of its bytes
    req,     \* server: the packet last received
    io,      \* server: the file operation that failed for it, if any
    out,     \* server: what handle did with it
    g,       \* the Getter: Type, Name, Domain, StartOff, Max and cursor off
    max0,    \* the Max the Getter was set up with (Max itself counts down)
    umax,    \* get: the transfer is unbounded (Max was 0 at the start)
    pc,      \* get: where the transfer loop stands
    q,       \* get: the name of the query in flight
    res,     \* get: what the Querier returned for it
    wbuf,    \* get: the chunk handed to pw.Write
    stream,  \* the bytes the reader has read from the pipe
    pwErr,   \* how the write side of the pipe was closed
    rd,      \* the read side of the pipe: "open" or "closed"
    hist,    \* every query of the transfer and what the Querier returned
    calls,   \* what the NextName calls made outside a transfer returned
    cIn,     \* codec: the input
    cMid,    \* codec: its encoded form
    cOut,    \* codec: the encoded form decoded
    dq,      \* DoH: the dohQuery call under way
    closed,  \* pipe: the queries made and bytes read when the reader closed
    consumed,\* pipe: the number of chunks the reader has read
    mu,      \* Getter.l: the NextName call that holds the lock, 0 if free
    th,      \* the concurrent NextName calls: position, name and size held
    main,    \* server: the receive loop of main
    bufpool, \* server: the packet buffers in bufpool
    hands,   \* server: the handler goroutines and the buffer each holds
    bufPool, \* DoH: the buffers in bufPool
    dohs     \* DoH: the concurrent queries and the buffers each holds

srvVars == << req, io, out >>
getVars == << g, max0, umax, pc, q, res, wbuf, stream, pwErr, rd, hist >>
codecVars == << cIn, cMid, cOut >>
pipeVars == << closed, consumed >>
lockVars == << mu, th >>
rxVars == << main, bufpool, hands >>
dohPoolVars == << bufPool, dohs >>
vars ==
    << fs, srvVars, getVars, calls, codecVars, dq, pipeVars, lockVars, rxVars,
       dohPoolVars >>

\* The lengths of the served file: small ones, and ones around the size
\* of a TXT chunk
FileLens == (0..MaxFileLen) \cup { ansTXTMax + d : d \in (-1)..2 }
FilePatterns ==
    { [seed |-> 0, step |-> 0], [seed |-> 1, step |-> 37],
      [seed |-> 254, step |-> 1] }
Files == { [len |-> n, seed |-> p.seed, step |-> p.step] :
             n \in FileLens, p \in FilePatterns }

NoFile == [len |-> 0, seed |-> 0, step |-> 0]
NoGetter ==
    [Type |-> TypeA, Name |-> << >>, Domain |-> << >>, StartOff |-> 0,
     Max |-> 0, off |-> 0]

SrvIdle == req = [kind |-> "none"] /\ io = "none" /\ out = [why |-> "idle"]
GetIdle ==
    /\ g = NoGetter /\ max0 = 0 /\ umax = FALSE /\ pc = "idle" /\ q = << >>
    /\ res = [kind |-> "none"] /\ wbuf = << >> /\ stream = << >>
    /\ pwErr = "open" /\ rd = "open" /\ hist = << >>
CodecIdle == cIn = [kind |-> "none"] /\ cMid = << >> /\ cOut = [kind |-> "none"]
DohIdle == dq = [pc |-> "idle"]
PipeIdle == closed = [at |-> "open"] /\ consumed = 0
LockIdle == mu = 0 /\ th = << >>
RxIdle ==
    /\ main = [pc |-> "idle", buf |-> 0, err |-> "none", pause |-> 0]
    /\ bufpool = << >> /\ hands = << >>
DohPoolIdle == bufPool = << >> /\ dohs = << >>

(***************************************************************************)
(* The server alone: packets of every shape against one served file.       *)
(***************************************************************************)
\* Offsets asked for: around the ends of the files, and the largest
SrvOffsets ==
    (0..(MaxFileLen + 1)) \cup { ansTXTMax, DirLen - 1, DirLen, UintMod - 1 }
\* File names asked for; every "." ends the label the server looks at
SrvFileNames ==
    { ServedName, << "A" >>, << >>, << "b" >>, << "a", "/" >>, << "/", "a" >>,
      << ".", ".", "/", "s" >>,
      << "a", "/", ".", ".", "/", ".", ".", "/", "s" >>,
      << "a", "-", "b" >> }
SrvSuffix == << ".", "e", "." >>
SrvMalformed ==
    { << "." >>, << "a", ".", "e", "." >>, << "-", "a", ".", "e", "." >>,
      << "!", "-", "a", ".", "e", "." >>, << "0", "a", ".", "e", "." >>,
      << "z", "z", "z", "-", "a", ".", "e", "." >>,
      << "0", ".", "-", "a", ".", "e", "." >> }
SrvNames ==
    { FormatUint(o, 36) \o << "-" >> \o f \o SrvSuffix :
        o \in SrvOffsets, f \in SrvFileNames }
      \cup { << "3", "-", "A", "." >>, << "Z", "-", "a", "." >> }
      \cup SrvMalformed
\* A record a query carries in its own answer section
StrayRR == [type |-> TypeA, body |-> << 1, 2, 3, 4 >>, txt |-> << >>]
Packets ==
    { [kind |-> "garbage", questions |-> << >>, answers |-> << >>],
      [kind |-> "msg", questions |-> << >>, answers |-> << >>] }
      \cup { [kind |-> "msg", questions |-> << [name |-> n, type |-> t] >>,
              answers |-> a] :
               n \in SrvNames, t \in QTypes, a \in { << >>, << StrayRR >> } }

\* The files of the server-only runs: empty, short, and longer than a TXT chunk
SrvFiles ==
    { f \in Files :
        f.seed = 1 /\ f.len \in { 0, 1, 3, MaxFileLen, ansTXTMax + 2 } }

SrvInit ==
    /\ fs \in SrvFiles
    /\ SrvIdle /\ GetIdle /\ CodecIdle /\ calls = << >>
    /\ RxIdle /\ DohPoolIdle /\ DohIdle /\ PipeIdle /\ LockIdle

\* main, lines 119-131: a packet is read from the socket.  The file
\* operation that will fail for it, if any, is the environment's choice.
Receive ==
    /\ req.kind = "none"
    /\ \E pkt \in Packets, fault \in Faults :
         /\ req' = pkt
         /\ io' = fault
    /\ out' = [why |-> "pending"]
    /\ UNCHANGED << fs, rxVars, dohPoolVars, dq, pipeVars, lockVars,
                    getVars, calls, codecVars >>

\* main, lines 133-139, and handle: the packet is handled
Serve ==
    /\ req.kind # "none" /\ out.why = "pending"
    /\ out' = Handle(req, fs, io)
    /\ UNCHANGED << fs, rxVars, dohPoolVars, dq, pipeVars, lockVars,
                    req, io, getVars, calls, codecVars >>

\* line 134: the handler is over and its buffer back in the pool
Recycle ==
    /\ req.kind # "none" /\ out.why # "pending"
    /\ req' = [kind |-> "none"] /\ io' = "none" /\ out' = [why |-> "idle"]
    /\ UNCHANGED << fs, rxVars, dohPoolVars, dq, pipeVars, lockVars,
                    getVars, calls, codecVars >>

Handled == req.kind # "none" /\ out.why # "pending"

SrvNext == Receive \/ Serve \/ Recycle
SpecServer == SrvInit /\ [][SrvNext]_vars

\* The request in req is a question whose name parses
ReqParses ==
    /\ Handled /\ req.kind = "msg" /\ Len(req.questions) > 0
    /\ ParseQuery(req.questions[1].name).ok
ReqOff == ParseQuery(req.questions[1].name).foff
ReqType == req.questions[1].type
\* The length of what the request's path names
ReqLen == OpenFile(out.path, fs).len

\* C8: a query whose name parses and whose file opens, for an offset at or
\* beyond the file's length, gets a response with result code name error,
\* and nothing is read from the file for it.
C8_EOFAtOrBeyondEnd ==
    (ReqParses /\ out.opened /\ ReqOff >= ReqLen)
        => (out.sent /\ out.rcode = "NameError" /\ ~out.read)
C8_Witness ==
    /\ ReqParses /\ out.opened /\ out.path = ServedPath
    /\ fs.len > 0 /\ ReqOff = fs.len /\ io = "none"
    /\ out.sent /\ out.rcode = "NameError"

\* C9: a query whose type is not A, AAAA or TXT gets no response.
C9_UnsupportedTypeDropped ==
    (Handled /\ req.kind = "msg" /\ Len(req.questions) > 0
        /\ ReqType \notin Supported)
        => ~out.sent

\* C10: a query for a file name with path-traversal segments gets no
\* response.
HasTraversal(name) ==
    \E i \in 1..(Len(name) - 1) : name[i] = "." /\ name[i + 1] = "."
C10_TraversalDropped ==
    (Handled /\ req.kind = "msg" /\ Len(req.questions) > 0
        /\ HasTraversal(req.questions[1].name))
        => ~out.sent

\* The first label of a name: the text before its first "."
FirstLabel(name) ==
    LET i == Index(name, ".") IN
    IF i = 0 THEN name ELSE SubSeq(name, 1, i - 1)

\* A packet that is malformed in one of five ways: it does not unpack, it
\* has no question, its first label has no "-", the offset part before the
\* "-" is empty, or the offset part has a character that is no base-36 digit
MalformedPacket(pkt) ==
    \/ pkt.kind # "msg"
    \/ Len(pkt.questions) = 0
    \/ LET l == FirstLabel(pkt.questions[1].name)
           d == Index(l, "-")
       IN  \/ d = 0
           \/ d = 1
           \/ \E i \in 1..(d - 1) :
                 \A k \in 1..36 : Digits36[k] # ToLowerCh(l[i])

\* C11: a malformed packet (does not unpack, no question, no "-" in the
\* first label, empty offset part, offset part not base 36) gets no response
\* and no file is opened for it.
C11_MalformedDropped ==
    (Handled /\ MalformedPacket(req))
        => (~out.sent /\ ~out.opened /\ out.path = << >>)
C11_Witness ==
    /\ Handled /\ req.kind = "msg" /\ Len(req.questions) > 0
    /\ req.questions[1].name = << "!", "-", "a", ".", "e", "." >>
    /\ io = "none" /\ fs.len > 0
    /\ ~out.sent /\ ~out.opened

\* The file operation that fails for the request in req is one that handle
\* gets to: the open for every name that parses, the size once the file is
\* open, the seek for an offset inside the file, the read for a supported
\* type.
ReqOpens == ReqParses /\ OpenFile(FilepathJoin(fdir,
                ParseQuery(req.questions[1].name).fname), fs).ok
ReqFileLen == OpenFile(FilepathJoin(fdir,
                ParseQuery(req.questions[1].name).fname), fs).len
IOErrorHit ==
    \/ ReqParses /\ (io = "open" \/ ~ReqOpens)
    \/ ReqOpens /\ io = "size"
    \/ ReqOpens /\ io = "seek" /\ ReqOff < ReqFileLen
    \/ ReqOpens /\ io = "read" /\ ReqOff < ReqFileLen /\ ReqType \in Supported

\* C12: a request for which opening the file, getting its size, seeking or
\* reading fails (other than with end-of-file) gets no response.
C12_IOErrorsDropped == IOErrorHit => ~out.sent
\* The same for every failing operation but getting the size
C12_OpenSeekReadErrorsDropped == (IOErrorHit /\ io # "size") => ~out.sent
C12_SizeErrorWitness ==
    /\ ReqOpens /\ io = "size" /\ out.path = ServedPath
    /\ fs.len > 0 /\ ReqOff = 0 /\ ReqType = TypeA
    /\ out.sent /\ out.rcode = "NameError"


\* handle has sent the end-of-file response
EOFSent == Handled /\ out.sent /\ out.why = "eof"

\* C25: every end-of-file response has the result code name error and no
\* answer records, whatever sections the query carried.
C25_EOFNameErrorNoAnswers ==
    EOFSent => (out.rcode = "NameError" /\ out.answers = << >>)
\* Its result code is name error, and its answer section is the query's
C25_EOFEchoesAnswers ==
    EOFSent => (out.rcode = "NameError" /\ out.answers = req.answers)
C25_Witness ==
    /\ EOFSent /\ req.answers = << StrayRR >> /\ out.answers = << StrayRR >>
    /\ out.rcode = "NameError" /\ out.path = ServedPath

\* The path is the serving directory or lies below it
InsideDir(path) ==
    \/ path = fdir
    \/ /\ Len(path) > Len(fdir) + 1
       /\ SubSeq(path, 1, Len(fdir) + 1) = fdir \o << "/" >>
       /\ \A k \in 1..Len(Split(path, "/")) : Split(path, "/")[k] # DotDot
\* The file name of the request: what follows the first "-" of the first
\* label of its lower-cased name
ReqFileName == SplitN2(FirstLabel(ToLower(req.questions[1].name)), "-")[2]

\* C26: the path handle opens is the serving directory joined with the
\* cleaned file name of the query, and it lies inside the serving
\* directory; no file is opened or read anywhere else, whatever queries
\* came before.
C26_PathContained ==
    (Handled /\ out.path # << >>)
        => /\ out.path = FilepathJoin(fdir, Clean(ReqFileName))
           /\ InsideDir(out.path)
           /\ out.path # OutsidePath
\* A query whose name asks for ../s has been handled and the serving
\* directory opened
C26_Witness ==
    /\ Handled /\ out.opened /\ out.path = fdir
    /\ HasTraversal(req.questions[1].name)
\* A query for a file in the directory has been read
C26_ReadWitness ==
    /\ Handled /\ out.read /\ out.path = ServedPath
    /\ ReqFileName = << "a", "/" >>

(***************************************************************************)
(* main's receive loop, the handler goroutines it starts and bufpool.      *)
(* A buffer is known by the array behind it: bufpool[b] is the number of   *)
(* times array b lies in the pool.  sync.Pool's Get hands out a pooled     *)
(* buffer or, when it finds none, a new one.                               *)
(*   main.pc = "get"    line 121, about to take a buffer                   *)
(*             "read"   line 122, in pc.ReadFrom                           *)
(*             "sleep"  line 127, in time.Sleep(rxPause)                   *)
(*             "fatal"  line 130, log.Fatalf has ended the process         *)
(***************************************************************************)
MaxHandlers == 2
Handlers == 1..MaxHandlers
Bufs == 1..(MaxHandlers + 1)
\* rxPause, in seconds
rxPause == 1

\* The errors of pc.ReadFrom: whether the error (or one it wraps) has a
\* Temporary method, and what the method answers
RxErrors ==
    { [method |-> FALSE, temporary |-> FALSE],
      [method |-> TRUE, temporary |-> FALSE],
      [method |-> TRUE, temporary |-> TRUE] }
\* The datagrams read: an empty one, one that is no DNS message, a query
RxPackets ==
    { [kind |-> "empty", questions |-> << >>, answers |-> << >>],
      [kind |-> "garbage", questions |-> << >>, answers |-> << >>],
      [kind |-> "msg",
       questions |-> << [name |-> << "0", "-" >> \o ServedName \o SrvSuffix,
                         type |-> TypeA] >>,
       answers |-> << >>] }

\* Line 124, errors.As(err, &te) with te an interface{ Temporary() bool }:
\* the error has the method.  The method is not called.
AsTemporary(e) == e.method

NoHandler == [pc |-> "free", buf |-> 0, pkt |-> [kind |-> "none"]]
MainAt(at, b) == [pc |-> at, buf |-> b, err |-> "none", pause |-> 0]

\* The tasks that hold array b
BufHolders(b) ==
    (IF main.buf = b THEN { 0 } ELSE { })
        \cup { h \in DOMAIN hands : hands[h].buf = b }
\* sync.Pool.Get: the arrays it may hand out, pooled ones or a new one
PoolGets(pool, held) ==
    LET free == { b \in DOMAIN pool : pool[b] = 0 /\ b \notin held } IN
    { b \in DOMAIN pool : pool[b] > 0 }
        \cup { b \in free : \A a \in free : b <= a }
\* The pool after array b has been taken from it, or made anew
PoolTake(pool, b) == [pool EXCEPT ![b] = IF @ > 0 THEN @ - 1 ELSE 0]
\* sync.Pool.Put
PoolPut(pool, b) == [pool EXCEPT ![b] = @ + 1]

RxInit ==
    /\ fs \in { f \in SrvFiles : f.len = 3 }
    /\ SrvIdle /\ GetIdle /\ CodecIdle /\ calls = << >>
    /\ DohPoolIdle /\ DohIdle /\ PipeIdle /\ LockIdle
    /\ main = MainAt("get", 0)
    /\ bufpool = [b \in Bufs |-> 0]
    /\ hands = [h \in Handlers |-> NoHandler]

\* Line 121: buf := bufpool.Get().([]byte)
RxGet ==
    /\ main.pc = "get"
    /\ \E b \in PoolGets(bufpool, { a \in Bufs : BufHolders(a) # { } }) :
         /\ bufpool' = PoolTake(bufpool, b)
         /\ main' = MainAt("read", b)
    /\ UNCHANGED << fs, srvVars, getVars, calls, codecVars, dq, pipeVars,
                    lockVars, hands, dohPoolVars >>

\* A packet is handed to a goroutine and the loop puts its buffer back too
RxPacketPutsBack ==
    /\ main.pc = "read"
    /\ \E pkt \in RxPackets, h \in Handlers :
         /\ hands[h].pc = "free"
         /\ hands' = [hands EXCEPT ![h] =
                        [pc |-> "run", buf |-> main.buf, pkt |-> pkt]]
    /\ bufpool' = PoolPut(bufpool, main.buf)
    /\ main' = MainAt("get", 0)
    /\ UNCHANGED << fs, srvVars, getVars, calls, codecVars, dq, pipeVars,
                    lockVars, dohPoolVars >>

\* Lines 122 and 132-139: a packet is read and handed, with its buffer, to
\* a goroutine of its own; the loop goes round
RxPacket ==
    /\ main.pc = "read"
    /\ \E pkt \in RxPackets, h \in Handlers :
         /\ hands[h].pc = "free"
         /\ hands' = [hands EXCEPT ![h] =
                        [pc |-> "run", buf |-> main.buf, pkt |-> pkt]]
    /\ main' = MainAt("get", 0)
    /\ UNCHANGED << fs, srvVars, getVars, calls, codecVars, dq, pipeVars,
                    lockVars, bufpool, dohPoolVars >>

\* Lines 122-131: pc.ReadFrom fails.  An error that errors.As takes for
\* temporary puts the buffer back and the loop sleeps; any other ends the
\* process.
RxError ==
    /\ main.pc = "read"
    /\ \E e \in RxErrors :
         IF AsTemporary(e)
         THEN /\ bufpool' = PoolPut(bufpool, main.buf)
              /\ main' = [pc |-> "sleep", buf |-> 0, err |-> e,
                          pause |-> rxPause]
         ELSE /\ main' = [main EXCEPT !.pc = "fatal", !.err = e]
              /\ UNCHANGED bufpool
    /\ UNCHANGED << fs, srvVars, getVars, calls, codecVars, dq, pipeVars,
                    lockVars, hands, dohPoolVars >>

\* Lines 127-128: the pause is over, the loop goes round
RxWake ==
    /\ main.pc = "sleep"
    /\ main' = MainAt("get", 0)
    /\ UNCHANGED << fs, srvVars, getVars, calls, codecVars, dq, pipeVars,
                    lockVars, bufpool, hands, dohPoolVars >>

\* Lines 135-138: the goroutine handles its packet, unless it is empty; the
\* response is packed into the goroutine's buffer
HandlerRun(h) ==
    /\ main.pc \notin { "idle", "fatal" } /\ hands[h].pc = "run"
    /\ hands' = [hands EXCEPT ![h].pc = "put"]
    /\ IF hands[h].pkt.kind = "empty"
       THEN UNCHANGED srvVars
       ELSE /\ req' = hands[h].pkt /\ io' = "none"
            /\ out' = Handle(hands[h].pkt, fs, "none")
    /\ UNCHANGED << fs, getVars, calls, codecVars, dq, pipeVars, lockVars,
                    main, bufpool, dohPoolVars >>

\* Line 134, the deferred bufpool.Put(buf): the goroutine is over
HandlerReturn(h) ==
    /\ main.pc \notin { "idle", "fatal" } /\ hands[h].pc = "put"
    /\ bufpool' = PoolPut(bufpool, hands[h].buf)
    /\ hands' = [hands EXCEPT ![h] = NoHandler]
    /\ UNCHANGED << fs, srvVars, getVars, calls, codecVars, dq, pipeVars,
                    lockVars, main, dohPoolVars >>

RxNext ==
    \/ RxGet \/ RxPacket \/ RxError \/ RxWake
    \/ \E h \in Handlers : HandlerRun(h) \/ HandlerReturn(h)
SpecRx == RxInit /\ [][RxNext]_vars

\* The receive error is temporary: it has the method and the method says so
IsTemporary(e) == e.method /\ e.temporary
\* The loop has just dealt with a receive error
RxFailed == main.pc \in { "sleep", "fatal" }

\* C22: a temporary receive error makes the loop pause for rxPause and go
\* on; every receive error that is not temporary ends the process.
C22_TemporaryRetriedElseFatal ==
    RxFailed
        => /\ IsTemporary(main.err)
                => (main.pc = "sleep" /\ main.pause = rxPause)
           /\ ~IsTemporary(main.err) => main.pc = "fatal"
\* What the loop does: the pause is for every error that has a Temporary
\* method, whatever the method answers
C22_RetriedIffHasMethod ==
    RxFailed
        => /\ AsTemporary(main.err)
                => (main.pc = "sleep" /\ main.pause = rxPause)
           /\ ~AsTemporary(main.err) => main.pc = "fatal"
\* The loop goes round after every pause
C22_LoopGoesOn == [][main.pc = "sleep" => main'.pc = "get"]_main
C22_Witness ==
    /\ main.pc = "sleep" /\ main.err.method /\ ~main.err.temporary
    /\ main.pause = rxPause

(***************************************************************************)
(* The transfer: Getter.Get and Getter.get.                                *)
(*   pc = "start"   the Getter is set up, Get has not been called          *)
(*        "top"     get is at the top of its loop (line 120)               *)
(*        "query"   a query is with the Querier (lines 135-145)            *)
(*        "answer"  the Querier has returned (line 146)                    *)
(*        "write"   get is in pw.Write (line 187)                          *)
(*        "done"    get has returned                                       *)
(* pwErr is "open", then "EOF" after pw.Close() and "error" after          *)
(* pw.CloseWithError.                                                      *)
(***************************************************************************)
\* Get, and get down to its loop (lines 98-119)
Get ==
    /\ pc = "start"
    /\ umax' = (g.Max = 0)
    /\ pc' = "top"
    /\ UNCHANGED << fs, rxVars, dohPoolVars, dq, pipeVars, lockVars,
                    srvVars, g, max0, q, res, wbuf, stream, pwErr, rd, hist,
                    calls, codecVars >>

\* Lines 120-145: stop when the budget is used up, else name the next query
\* and hand it to the Querier.  NextName fails exactly for the types the
\* switch at line 135 would reject.
GetQuery ==
    /\ pc = "top"
    /\ IF g.Max = 0 /\ ~umax
       THEN /\ pwErr' = "EOF" /\ pc' = "done"
            /\ UNCHANGED << g, q >>
       ELSE LET nn == NextName(g) IN
            /\ g' = [g EXCEPT !.off = nn.off]
            /\ IF nn.err
               THEN pwErr' = "error" /\ pc' = "done" /\ UNCHANGED q
               ELSE q' = nn.q /\ pc' = "query" /\ UNCHANGED pwErr
    /\ UNCHANGED << fs, rxVars, dohPoolVars, dq, pipeVars, lockVars,
                    srvVars, max0, umax, res, wbuf, stream, rd, hist,
                    calls, codecVars >>

\* min(n, Max) of line 184, taken the wrong way round
WriteLenNoCap(n) == n

\* Lines 184-186: the number of bytes of a decoded chunk of n bytes to write
WriteLen(n) == IF g.Max < n /\ ~umax THEN g.Max ELSE n

\* Every error of the Querier taken for the end of the file
IsNotFoundAnyError(r) == r.kind \in { "notfound", "error" }

\* Line 148: the Querier's error is a *net.DNSError with IsNotFound set
IsNotFound(r) == r.kind = "notfound"

\* The chunk put into a buffered pipe: the write returns at once
DecodedNoWait(d) ==
    IF d.err
    THEN pwErr' = "error" /\ pc' = "done" /\ UNCHANGED wbuf
    ELSE /\ wbuf' = SubSeq(d.data, 1, WriteLen(d.n))
         /\ pc' = "top" /\ UNCHANGED pwErr

\* Lines 167-186: what is done with the decoded first answer d: a decoding
\* error ends the transfer, a chunk is handed to the pipe.
Decoded(d) ==
    IF d.err
    THEN pwErr' = "error" /\ pc' = "done" /\ UNCHANGED wbuf
    ELSE /\ wbuf' = SubSeq(d.data, 1, WriteLen(d.n))
         /\ pc' = "write" /\ UNCHANGED pwErr

\* Lines 146-186: the Querier's result is looked at, its first answer decoded
\* and the chunk handed to the pipe.
GetAnswer ==
    /\ pc = "answer"
    /\ IF IsNotFound(res)
       THEN pwErr' = "EOF" /\ pc' = "done" /\ UNCHANGED wbuf
       ELSE IF res.kind # "answers"
       THEN pwErr' = "error" /\ pc' = "done" /\ UNCHANGED wbuf
       ELSE IF Len(res.as) = 0
       THEN pwErr' = "error" /\ pc' = "done" /\ UNCHANGED wbuf
       ELSE Decoded(DecodeResponse(g.Type, MaxDecode, res.as[1]))
    /\ UNCHANGED << fs, rxVars, dohPoolVars, dq, pipeVars, lockVars,
                    srvVars, g, max0, umax, q, res, stream, rd, hist,
                    calls, codecVars >>

\* Line 187 and lines 191-194: the reader reads the chunk, pw.Write returns
\* and the budget is counted down.
PipeRead ==
    /\ pc = "write" /\ rd = "open"
    /\ stream' = stream \o wbuf
    /\ g' = [g EXCEPT !.Max = IF umax THEN @ ELSE @ - Len(wbuf)]
    /\ wbuf' = << >>
    /\ pc' = "top"
    /\ consumed' = consumed + 1
    /\ UNCHANGED << fs, rxVars, dohPoolVars,
                    dq, closed, lockVars, srvVars, max0, umax, q, res, pwErr,
                    rd, hist, calls, codecVars >>

\* The error of pw.Write not looked at: the loop goes on
WriteFailGoesOn ==
    /\ pc = "write" /\ rd = "closed"
    /\ pc' = "top"
    /\ wbuf' = << >>
    /\ UNCHANGED << fs, rxVars, dohPoolVars, dq, pipeVars, lockVars,
                    srvVars, g, max0, umax, q, res, stream, pwErr, rd, hist,
                    calls, codecVars >>

\* Lines 187-190: the read side is closed, pw.Write fails
WriteFail ==
    /\ pc = "write" /\ rd = "closed"
    /\ pwErr' = "error" /\ pc' = "done"
    /\ wbuf' = << >>
    /\ UNCHANGED << fs, rxVars, dohPoolVars, dq, pipeVars, lockVars,
                    srvVars, g, max0, umax, q, res, stream, rd, hist,
                    calls, codecVars >>

\* The number of queries made so far
NumQueries == Len(hist) + (IF pc = "query" THEN 1 ELSE 0)

\* The caller closes the reader before the transfer is over
ReaderClose ==
    /\ rd = "open" /\ pc \in { "top", "query", "answer", "write" }
    /\ rd' = "closed"
    /\ closed' = [at |-> "closed", q |-> NumQueries, n |-> Len(stream)]
    /\ UNCHANGED << fs, rxVars, dohPoolVars,
                    dq, consumed, lockVars, srvVars, g, max0, umax, pc, q,
                    res, wbuf, stream, pwErr, hist, calls, codecVars >>

(***************************************************************************)
(* A Querier backed by the server: querier.go's defaultQuerier, with the   *)
(* resolver asking the server.                                             *)
(***************************************************************************)
\* The name as the server sees it: fully qualified
WireName(name) == IF HasSuffix(name, ".") THEN name ELSE name \o << "." >>

\* The strings of a sequence, one after the other
RECURSIVE Concat(_)
Concat(ss) == IF Len(ss) = 0 THEN << >> ELSE ss[1] \o Concat(Tail(ss))

\* The text of one answer record: ips2Strings for A and AAAA, the
\* character-strings of a TXT record as one string
AnswerText(rr) ==
    IF rr.type = TypeTXT THEN Concat(rr.txt) ELSE IPString(rr.body)

\* The answers of type t among rrs, as text, in record order
RECURSIVE AnswerTexts(_, _)
AnswerTexts(rrs, t) ==
    IF Len(rrs) = 0 THEN << >>
    ELSE (IF rrs[1].type = t THEN << AnswerText(rrs[1]) >> ELSE << >>)
           \o AnswerTexts(Tail(rrs), t)

\* What the Querier's method for type t returns for name when the server
\* handles the query with no file operation failing: the answers of a
\* response, the not-found error for a name error, an error (a timeout)
\* when the server does not respond.
ServerLookup(name, t) ==
    LET pkt == [kind |-> "msg",
                questions |-> << [name |-> WireName(name), type |-> t] >>,
                answers |-> << >>]
        o == Handle(pkt, fs, "none")
    IN  IF ~o.sent THEN [kind |-> "error", as |-> << >>]
        ELSE IF o.rcode = "NameError" THEN [kind |-> "notfound", as |-> << >>]
        ELSE [kind |-> "answers", as |-> AnswerTexts(o.answers, t)]

\* The Querier returns (lines 136-141)
ServerAnswers ==
    /\ pc = "query"
    /\ res' = ServerLookup(q, g.Type)
    /\ hist' = Append(hist, [q |-> q, res |-> res'])
    /\ pc' = "answer"
    /\ UNCHANGED << fs, rxVars, dohPoolVars, dq, pipeVars, lockVars,
                    srvVars, g, max0, umax, q, wbuf, stream, pwErr, rd,
                    calls, codecVars >>

\* Byte budgets for a Getter of type t: none, and up to MaxChunks chunks
\* give or take a byte
MaxVals(t) ==
    LET c == PayloadSize(t).n IN
    { 0, 1 } \cup { m \in { k * c + d : k \in 1..MaxChunks, d \in (-1)..1 } : m > 0 }

StartOffVals ==
    (0..4) \cup { MaxFileLen, ansTXTMax - 1, ansTXTMax + 1, UintMod - 1 }

\* A Getter before its first use
NewGetter(t, name, domain, start, max) ==
    [Type |-> t, Name |-> name, Domain |-> domain, StartOff |-> start,
     Max |-> max, off |-> 0]

GetReady ==
    /\ max0 = g.Max /\ umax = FALSE /\ pc = "start" /\ q = << >>
    /\ res = [kind |-> "none"] /\ wbuf = << >> /\ stream = << >>
    /\ pwErr = "open" /\ rd = "open" /\ hist = << >>

\* End to end: a Getter for the served file, its Querier backed by the
\* server, its reader reading to the end.  Files longer than MaxFileLen are
\* fetched with TXT queries only.
E2EInit ==
    /\ fs \in Files
    /\ \E t \in QTypes, s \in StartOffVals :
         \E m \in MaxVals(t) :
            /\ (fs.len > MaxFileLen => t = TypeTXT)
            /\ g = NewGetter(t, ServedName, << "e" >>, s, m)
    /\ GetReady
    /\ SrvIdle /\ CodecIdle /\ calls = << >>
    /\ RxIdle /\ DohPoolIdle /\ DohIdle /\ PipeIdle /\ LockIdle

E2ENext == Get \/ GetQuery \/ ServerAnswers \/ GetAnswer \/ PipeRead
SpecE2E == E2EInit /\ [][E2ENext]_vars

\* The served file, and its bytes from offset s on, n of them, zero past
\* the end
F == FileBytes(fs.len, fs.seed, fs.step)
FileFrom(s, n) == [i \in 1..n |-> IF s + i <= fs.len THEN F[s + i] ELSE 0]
CeilDiv(a, b) == (a + b - 1) \div b
Min(a, b) == IF a < b THEN a ELSE b

\* C1: type A, StartOff 0, no byte budget, every query answered by the
\* server of an N-byte file: the stream is the file followed by zero bytes
\* up to 3 * ceil(N / 3) bytes, and is closed without error.
C1_EndToEndA ==
    (pc = "done" /\ g.Type = TypeA /\ g.StartOff = 0 /\ max0 = 0)
        => /\ pwErr = "EOF"
           /\ stream = FileFrom(0, 3 * CeilDiv(fs.len, 3))
C1_Witness ==
    /\ pc = "done" /\ g.Type = TypeA /\ g.StartOff = 0 /\ max0 = 0
    /\ fs.len = 5 /\ fs.step # 0 /\ Len(stream) = 6 /\ stream[6] = 0
    /\ Len(hist) = 3

\* C3: StartOff s and Max m > 0 against the server of an N-byte file: the
\* first query names offset s; the stream never holds more than m bytes;
\* its bytes are the file's from offset s on, in order, with zero bytes past
\* the end of the file for A and AAAA only; when s >= N the stream is empty
\* and is closed without error.
C3_PartialRange ==
    (max0 > 0 /\ g.Type \in Supported)
        => /\ Len(hist) > 0 =>
                 LET pq == ParseQuery(WireName(hist[1].q)) IN
                 pq.ok /\ pq.foff = g.StartOff
           /\ Len(stream) <= max0
           /\ stream = FileFrom(g.StartOff, Len(stream))
           /\ g.Type = TypeTXT => g.StartOff + Len(stream) <= fs.len
                                    \/ Len(stream) = 0
           /\ (pc = "done" /\ g.StartOff >= fs.len)
                 => (stream = << >> /\ pwErr = "EOF")
C3_Witness ==
    /\ pc = "done" /\ max0 = 4 /\ g.Type = TypeA /\ g.StartOff = 2
    /\ fs.len = 7 /\ fs.step # 0 /\ Len(stream) = 4 /\ pwErr = "EOF"
    /\ stream = SubSeq(F, 3, 6)

(***************************************************************************)
(* A canned Querier: each query gets one of a few results, whatever its    *)
(* name.                                                                   *)
(***************************************************************************)
\* The chunk the canned Querier sends in answer to query number k
CannedChunk(t, k) == FileBytes(PayloadSize(t).n, 10 * k + 1, 1)

\* The results of the canned Querier for query number k of type t.  tag
\* says which it is; payload is the chunk an answer stands for.
CannedResults(t, k) ==
    LET full == CannedChunk(t, k)
        short == << 77 >>
        answer(tag, chunk) ==
            [kind |-> "answers", tag |-> tag, payload |-> chunk,
             as |-> << AnswerText(AnswerRR(t, chunk)) >>]
    IN  { [kind |-> "notfound", tag |-> "notfound", payload |-> << >>,
           as |-> << >>],
          [kind |-> "error", tag |-> "error", payload |-> << >>, as |-> << >>],
          [kind |-> "answers", tag |-> "empty", payload |-> << >>,
           as |-> << >>],
          [kind |-> "answers", tag |-> "malformed", payload |-> << >>,
           as |-> << << "!" >> >>],
          answer("full", full) }
        \cup (IF t = TypeTXT THEN { answer("short", short) } ELSE { })

\* The Querier returns (lines 136-141).  After MaxChunks + 1 queries it
\* answers no more.
CannedAnswers ==
    /\ pc = "query"
    /\ \E r \in CannedResults(g.Type, Len(hist)) :
         /\ (r.kind = "answers" /\ Len(r.as) > 0) => Len(hist) <= MaxChunks
         /\ res' = r
         /\ hist' = Append(hist, [q |-> q, res |-> r])
    /\ pc' = "answer"
    /\ UNCHANGED << fs, rxVars, dohPoolVars, dq, pipeVars, lockVars,
                    srvVars, g, max0, umax, q, wbuf, stream, pwErr, rd,
                    calls, codecVars >>

CannedInit ==
    /\ fs = NoFile
    /\ \E t \in QTypes, s \in { 0, 2, UintMod - 3 } :
         \E m \in MaxVals(t) :
            g = NewGetter(t, ServedName, << "e" >>, s, m)
    /\ GetReady
    /\ SrvIdle /\ CodecIdle /\ calls = << >>
    /\ RxIdle /\ DohPoolIdle /\ DohIdle /\ PipeIdle /\ LockIdle

CannedNext ==
    \/ Get \/ GetQuery \/ CannedAnswers \/ GetAnswer \/ PipeRead
    \/ WriteFail \/ ReaderClose
SpecCanned == CannedInit /\ [][CannedNext]_vars

\* Every result so far was one full-capacity chunk
AllFull == \A i \in 1..Len(hist) : hist[i].res.tag = "full"

\* The chunks of the answers that decoded, in query order
RECURSIVE Payloads(_)
Payloads(h) ==
    IF Len(h) = 0 THEN << >> ELSE h[1].res.payload \o Payloads(Tail(h))

\* C2: with Max = M > 0 and a Querier that always returns one full chunk of
\* c bytes, no more than ceil(M / c) queries are ever made; the transfer
\* ends after exactly that many, the stream holding exactly M bytes and
\* closed without error.
C2_BoundedQueries ==
    (max0 > 0 /\ g.Type \in Supported /\ AllFull)
        => LET c == PayloadSize(g.Type).n IN
           /\ NumQueries <= CeilDiv(max0, c)
           /\ (pc = "done" /\ rd = "open")
                 => /\ Len(stream) = max0
                    /\ pwErr = "EOF"
                    /\ Len(hist) = CeilDiv(max0, c)
C2_Witness ==
    /\ pc = "done" /\ rd = "open" /\ max0 = 5 /\ g.Type = TypeA /\ AllFull
    /\ Len(hist) = 2 /\ Len(stream) = 5 /\ pwErr = "EOF"

\* The byte budget is used up
BoundReached == max0 > 0 /\ Len(stream) = max0
\* The last result of the Querier was the not-found error
LastNotFound == Len(hist) > 0 /\ hist[Len(hist)].res.kind = "notfound"

\* C4: a finished transfer is closed without error exactly when the byte
\* budget is used up or the last query was not found, and otherwise with an
\* error; a stream closed without error that was read to its end holds the
\* chunks of the earlier answers, cut to the budget.
C4_CleanCloseIff ==
    pc = "done"
        => /\ pwErr \in { "EOF", "error" }
           /\ pwErr = "EOF" <=> (BoundReached \/ LastNotFound)
           /\ (pwErr = "EOF" /\ rd = "open")
                 => stream = SubSeq(Payloads(hist), 1,
                                    IF max0 > 0
                                    THEN Min(max0, Len(Payloads(hist)))
                                    ELSE Len(Payloads(hist)))
C4_Witness ==
    /\ pc = "done" /\ pwErr = "EOF" /\ rd = "open" /\ max0 = 0
    /\ Len(hist) = 3 /\ LastNotFound /\ g.Type = TypeAAAA
    /\ stream = CannedChunk(TypeAAAA, 0) \o CannedChunk(TypeAAAA, 1)

\* What lines 146-186 do to get's position: from the Querier's return to
\* the write or to the end
AnswerLookedAt == pc = "answer" /\ pc' \in { "write", "done" }
\* What the Querier's return does to get's position
QuerierReturns == pc = "query" /\ pc' = "answer"

\* The transfer with the producer scheduled and the Querier returning: get
\* runs in a goroutine of its own (line 100) and takes its next step when
\* it can, and the query in flight returns.  Nothing makes the reader read.
\* The steps from "query" and from "answer" are told by the position alone.
SpecCannedLive ==
    /\ CannedInit /\ [][CannedNext]_vars
    /\ WF_vars(Get) /\ WF_vars(GetQuery) /\ WF_vars(WriteFail)
    /\ WF_pc(AnswerLookedAt) /\ WF_pc(QuerierReturns)

\* C18: once the reader is closed the loop makes at most one more query,
\* no more bytes reach the stream, and get returns.
C18_ReaderCloseEndsTransfer ==
    /\ [](closed.at = "closed"
            => /\ NumQueries <= closed.q + 1
               /\ Len(stream) = closed.n)
    /\ (rd = "closed") ~> (pc = "done")
C18_Witness ==
    /\ rd = "closed" /\ pc = "done" /\ pwErr = "error"
    /\ closed.at = "closed" /\ closed.q = 1 /\ closed.n > 0
    /\ NumQueries = 2 /\ hist[2].res.tag = "full"

\* C19: a query is made only when every chunk before it has been read:
\* the number of queries never exceeds the number of chunks read plus one,
\* and while a query is with the Querier no chunk waits in the pipe.
C19_Backpressure ==
    /\ NumQueries <= consumed + 1
    /\ pc = "query" => (wbuf = << >> /\ consumed = Len(hist))
C19_Witness ==
    /\ pc = "write" /\ rd = "open" /\ consumed = 2 /\ NumQueries = 3
    /\ Len(wbuf) > 0

(***************************************************************************)
(* NextName called on its own, without a transfer.                         *)
(***************************************************************************)
\* Names and domains a Getter is set up with
GetterNames == { ServedName, << "a", "-", "b" >>, << "A" >> }
GetterDomains == { << "e" >>, << "e", ".", "c", "." >> }
\* Starting offsets: small ones, and ones within a few chunks of the
\* largest uint
NextNameStarts ==
    { 0, 1, 35, 36 }
      \cup { UintMod - k * PayloadSize(t).n - d :
               t \in Supported, k \in 1..MaxCalls, d \in 0..1 }

NextNameInit ==
    /\ fs = NoFile
    /\ \E t \in QTypes, n \in GetterNames, d \in GetterDomains,
          s \in NextNameStarts :
         g = NewGetter(t, n, d, s, 0)
    /\ max0 = 0 /\ umax = FALSE /\ pc = "idle" /\ q = << >>
    /\ res = [kind |-> "none"] /\ wbuf = << >> /\ stream = << >>
    /\ pwErr = "open" /\ rd = "open" /\ hist = << >>
    /\ SrvIdle /\ CodecIdle /\ calls = << >>
    /\ RxIdle /\ DohPoolIdle /\ DohIdle /\ PipeIdle /\ LockIdle

\* One call of NextName (lines 200-225)
CallNextName ==
    /\ pc = "idle" /\ Len(calls) < MaxCalls
    /\ LET nn == NextName(g) IN
         /\ g' = [g EXCEPT !.off = nn.off]
         /\ calls' = Append(calls, [q |-> nn.q, err |-> nn.err])
    /\ UNCHANGED << fs, rxVars, dohPoolVars, dq, pipeVars, lockVars,
                    srvVars, max0, umax, pc, q, res, wbuf, stream, pwErr,
                    rd, hist, codecVars >>

SpecNextName == NextNameInit /\ [][CallNextName]_vars

\* C5: call number i (from 0) of NextName returns
\* base36(StartOff + i * c) "-" Name "." Domain, c being the payload size of
\* the Getter's type; the sum is taken in uint arithmetic.
C5_NextNameSequence ==
    g.Type \in Supported
        => \A i \in 1..Len(calls) :
             /\ ~calls[i].err
             /\ calls[i].q =
                  QueryName((g.StartOff + (i - 1) * PayloadSize(g.Type).n)
                               % UintMod,
                            g.Name, g.Domain)

\* The cursor wrapped to 0 at call number i (from 0)
WrappedAt(i) ==
    g.StartOff # 0 /\ i > 0
        /\ (g.StartOff + i * PayloadSize(g.Type).n) % UintMod = 0

\* The part of C5 the code keeps: the names follow StartOff + i * c up to the
\* call before which the cursor was 0 again.
C5_NextNameUntilWrap ==
    g.Type \in Supported
        => \A i \in 1..Len(calls) :
             (\A j \in 1..(i - 1) : ~WrappedAt(j))
                => /\ ~calls[i].err
                   /\ calls[i].q =
                        QueryName((g.StartOff
                                     + (i - 1) * PayloadSize(g.Type).n)
                                     % UintMod,
                                  g.Name, g.Domain)
C5_Witness ==
    /\ g.Type = TypeAAAA /\ g.StartOff = 36 /\ Len(calls) = 3
    /\ calls[3].q = << "1", "g", "-", "a", ".", "e" >>
C5_WrapWitness ==
    /\ g.Type = TypeA /\ g.StartOff = UintMod - 3 /\ Len(calls) = 2
    /\ calls[2].q = calls[1].q

(***************************************************************************)
(* NextName called by several goroutines at once.  Each call takes the     *)
(* Getter's lock (line 201), runs lines 204-222 a statement at a time and  *)
(* gives the lock back when it returns (line 202, deferred).               *)
(***************************************************************************)
MaxThreads == 2
Threads == 1..MaxThreads

ConcInit ==
    /\ fs = NoFile
    /\ \E t \in QTypes, s \in NextNameStarts :
         g = NewGetter(t, ServedName, << "e" >>, s, 0)
    /\ max0 = 0 /\ umax = FALSE /\ pc = "idle" /\ q = << >>
    /\ res = [kind |-> "none"] /\ wbuf = << >> /\ stream = << >>
    /\ pwErr = "open" /\ rd = "open" /\ hist = << >>
    /\ SrvIdle /\ CodecIdle /\ calls = << >>
    /\ RxIdle /\ DohPoolIdle /\ DohIdle /\ PipeIdle
    /\ mu = 0
    /\ th = [i \in Threads |-> [pc |-> "call", q |-> << >>, err |-> FALSE]]

\* Line 201, g.l.Lock(): the call goes on once the lock is free
NNLock(i) ==
    /\ th[i].pc = "call" /\ mu = 0
    /\ mu' = i
    /\ th' = [th EXCEPT ![i].pc = "start"]
    /\ UNCHANGED << fs, rxVars, dohPoolVars,
                    srvVars, getVars, calls, codecVars, dq, pipeVars >>

\* Lines 204-207: the cursor is started at StartOff
NNStart(i) ==
    /\ th[i].pc = "start"
    /\ g' = [g EXCEPT !.off = IF g.off = 0 /\ g.StartOff # 0
                               THEN g.StartOff ELSE @]
    /\ th' = [th EXCEPT ![i].pc = "roll"]
    /\ UNCHANGED << fs, rxVars, dohPoolVars,
                    srvVars, max0, umax, pc, q, res, wbuf, stream, pwErr,
                    rd, hist, calls, codecVars, dq, pipeVars, mu >>

\* Lines 209-215: the name is made from the cursor
NNRoll(i) ==
    /\ th[i].pc = "roll"
    /\ th' = [th EXCEPT ![i].pc = "size",
                        ![i].q = QueryName(g.off, g.Name, g.Domain)]
    /\ UNCHANGED << fs, rxVars, dohPoolVars,
                    srvVars, getVars, calls, codecVars, dq, pipeVars, mu >>

\* Lines 217-222: the cursor is advanced by the payload size
NNAdvance(i) ==
    /\ th[i].pc = "size"
    /\ LET a == PayloadSize(g.Type) IN
       IF a.err
       THEN /\ th' = [th EXCEPT ![i].pc = "unlock", ![i].q = << >>,
                                ![i].err = TRUE]
            /\ UNCHANGED g
       ELSE /\ g' = [g EXCEPT !.off = (@ + a.n) % UintMod]
            /\ th' = [th EXCEPT ![i].pc = "unlock"]
    /\ UNCHANGED << fs, rxVars, dohPoolVars,
                    srvVars, max0, umax, pc, q, res, wbuf, stream, pwErr,
                    rd, hist, calls, codecVars, dq, pipeVars, mu >>

\* Line 202, the deferred g.l.Unlock(): the call returns
NNUnlock(i) ==
    /\ th[i].pc = "unlock"
    /\ mu' = 0
    /\ th' = [th EXCEPT ![i].pc = "done"]
    /\ UNCHANGED << fs, rxVars, dohPoolVars,
                    srvVars, getVars, calls, codecVars, dq, pipeVars >>

ConcNext ==
    \E i \in Threads :
        NNLock(i) \/ NNStart(i) \/ NNRoll(i) \/ NNAdvance(i) \/ NNUnlock(i)
SpecConc == ConcInit /\ [][ConcNext]_vars

\* Every one of the concurrent calls has returned
AllReturned == th # << >> /\ \A i \in Threads : th[i].pc = "done"
\* The name for the offset StartOff + j * c
NameAt(j) ==
    QueryName((g.StartOff + j * PayloadSize(g.Type).n) % UintMod,
              g.Name, g.Domain)

\* C20: when k concurrent calls of NextName have returned, their names are
\* pairwise different, they are the names for StartOff + j * c, j = 0..k-1,
\* and the cursor is StartOff + k * c.
C20_ConcurrentNextName ==
    (g.Type \in Supported /\ AllReturned)
        => /\ \A i, j \in Threads : i # j => th[i].q # th[j].q
           /\ { th[i].q : i \in Threads }
                = { NameAt(j) : j \in 0..(MaxThreads - 1) }
           /\ g.off = (g.StartOff + MaxThreads * PayloadSize(g.Type).n)
                        % UintMod
\* The same for calls before which the cursor has not wrapped to 0
C20_ConcurrentUntilWrap ==
    (\A j \in 1..(MaxThreads - 1) : ~WrappedAt(j)) => C20_ConcurrentNextName
\* No two calls are between Lock and Unlock at once
C20_MutualExclusion ==
    th # << >>
        => \A i, j \in Threads :
             (i # j /\ th[i].pc \in { "start", "roll", "size", "unlock" })
                => th[j].pc \in { "call", "done" }
C20_WrapWitness ==
    /\ AllReturned /\ g.Type = TypeA /\ g.StartOff = UintMod - 3
    /\ th[1].q = th[2].q /\ g.off = 0

(***************************************************************************)
(* The transfer loop and NextName called beside it.  The loop is call 1    *)
(* of NextName, run a statement at a time under the lock; the other calls  *)
(* are made by goroutines of the program that uses the Getter.  Max is     *)
(* counted down by the loop at line 193, after NextName has returned.      *)
(***************************************************************************)
GuardInit ==
    /\ fs = NoFile
    /\ \E t \in QTypes, s \in { 0, 2 } :
         \E m \in MaxVals(t) :
            g = NewGetter(t, ServedName, << "e" >>, s, m)
    /\ GetReady
    /\ SrvIdle /\ CodecIdle /\ calls = << >>
    /\ RxIdle /\ DohPoolIdle /\ DohIdle /\ PipeIdle
    /\ mu = 0
    /\ th = [i \in Threads |->
               [pc |-> IF i = 1 THEN "idle" ELSE "call", q |-> << >>,
                err |-> FALSE]]

\* Lines 120-129: stop when the budget is used up, else call NextName
GetTop ==
    /\ pc = "top"
    /\ IF g.Max = 0 /\ ~umax
       THEN pwErr' = "EOF" /\ pc' = "done" /\ UNCHANGED th
       ELSE /\ th' = [th EXCEPT ![1] = [pc |-> "call", q |-> << >>,
                                       err |-> FALSE]]
            /\ pc' = "name" /\ UNCHANGED pwErr
    /\ UNCHANGED << fs, rxVars, dohPoolVars,
                    dq, pipeVars, mu, srvVars, g, max0, umax, q, res,
                    wbuf, stream, rd, hist, calls, codecVars >>

\* Lines 129-145: NextName has returned; its error ends the transfer, its
\* name goes to the Querier
GetNamed ==
    /\ pc = "name" /\ th[1].pc = "done"
    /\ IF th[1].err
       THEN pwErr' = "error" /\ pc' = "done" /\ UNCHANGED q
       ELSE q' = th[1].q /\ pc' = "query" /\ UNCHANGED pwErr
    /\ th' = [th EXCEPT ![1].pc = "idle"]
    /\ UNCHANGED << fs, rxVars, dohPoolVars,
                    dq, pipeVars, mu, srvVars, g, max0, umax, res,
                    wbuf, stream, rd, hist, calls, codecVars >>

GuardNext ==
    \/ Get \/ GetTop \/ GetNamed \/ CannedAnswers \/ GetAnswer \/ PipeRead
    \/ WriteFail \/ ReaderClose
    \/ \E i \in Threads :
         NNLock(i) \/ NNStart(i) \/ NNRoll(i) \/ NNAdvance(i) \/ NNUnlock(i)
SpecGuard == GuardInit /\ [][GuardNext]_vars

\* Call i of NextName is between Lock and Unlock
InNextName(i) == th[i].pc \in { "start", "roll", "size", "unlock" }

\* C21: every write to the cursor and every write to the remaining-bytes
\* counter is made by a goroutine that holds the Getter's lock: the cursor by
\* the call of NextName that holds it, the counter by the transfer loop while
\* the loop (call 1) holds it.
C21_WritesUnderGuard ==
    [][/\ g'.off # g.off => \E i \in Threads : mu = i /\ InNextName(i)
       /\ g'.Max # g.Max => (mu = 1 /\ InNextName(1))]_vars
\* The same for the cursor alone
C21_CursorUnderGuard ==
    [][g'.off # g.off => \E i \in Threads : mu = i /\ InNextName(i)]_vars
\* The counter has been counted down and the loop is not in NextName
C21_Witness ==
    /\ th # << >> /\ g.Max < max0 /\ consumed = 1 /\ pc = "top"
    /\ th[1].pc = "idle" /\ mu = 0

(***************************************************************************)
(* The query name, from the client's NextName to the server's parse.       *)
(***************************************************************************)
\* File names: valid ones, and ones that are not (upper case, a dot, not a
\* clean path)
CodecNames ==
    { ServedName, << "a", "-", "b" >>, << "a", "/", "b" >>, << "0" >>,
      << "A" >>, << "a", ".", "b" >>, << "a", "/" >>, << >> }

\* A file name the protocol can carry: lower case, within one label, and a
\* clean path
ValidFileName(n) ==
    /\ ToLower(n) = n
    /\ Index(n, ".") = 0
    /\ Clean(n) = n

NameCodecInit ==
    /\ fs = NoFile /\ SrvIdle /\ GetIdle /\ calls = << >>
    /\ RxIdle /\ DohPoolIdle /\ DohIdle /\ PipeIdle /\ LockIdle
    /\ cIn \in { [kind |-> "name", off |-> o, name |-> n, domain |-> d] :
                   o \in 0..(UintMod - 1), n \in CodecNames,
                   d \in GetterDomains }
    /\ cMid = << >> /\ cOut = [kind |-> "none"]

\* The client names the query (lines 210-215)
EncodeName ==
    /\ cIn.kind = "name" /\ cMid = << >>
    /\ cMid' = QueryName(cIn.off, cIn.name, cIn.domain)
    /\ UNCHANGED << fs, rxVars, dohPoolVars, dq, pipeVars, lockVars,
                    srvVars, getVars, calls, cIn, cOut >>

\* The server takes the name apart (dnsfserv.go, lines 173-200)
DecodeName ==
    /\ cIn.kind = "name" /\ cMid # << >> /\ cOut.kind = "none"
    /\ cOut' = [kind |-> "parsed", pq |-> ParseQuery(WireName(cMid))]
    /\ UNCHANGED << fs, rxVars, dohPoolVars, dq, pipeVars, lockVars,
                    srvVars, getVars, calls, cIn, cMid >>

SpecNameCodec == NameCodecInit /\ [][EncodeName \/ DecodeName]_vars

\* C6: for every offset, valid file name and domain, the server's parse of
\* the name the client makes gives back the offset and the file name.
C6_NameRoundTrip ==
    (cOut.kind = "parsed" /\ ValidFileName(cIn.name))
        => /\ cOut.pq.ok
           /\ cOut.pq.foff = cIn.off
           /\ cOut.pq.name = cIn.name
           /\ cOut.pq.fname = cIn.name
C6_Witness ==
    /\ cOut.kind = "parsed" /\ cIn.name = << "a", "-", "b" >>
    /\ cIn.off = UintMod - 1 /\ Len(cMid) > 6
    /\ cOut.pq.ok /\ cOut.pq.foff = UintMod - 1 /\ cOut.pq.name = cIn.name

(***************************************************************************)
(* The payload, from the server's record to the client's decoded chunk.    *)
(***************************************************************************)
ByteVals == { 0, 1, 255 }
\* Every sequence of n bytes of ByteVals
RECURSIVE ByteSeqs(_)
ByteSeqs(n) ==
    IF n = 0 THEN { << >> }
    ELSE { Append(b, v) : b \in ByteSeqs(n - 1), v \in ByteVals }

\* The chunks read from a file for an answer of type t: 1 to the type's
\* size in bytes
Chunks(t) ==
    IF t = TypeTXT
    THEN { FileBytes(n, p.seed, p.step) : n \in 1..ansTXTMax, p \in FilePatterns }
    ELSE UNION { ByteSeqs(n) : n \in 1..ReadSize(t) }

PayloadInit ==
    /\ fs = NoFile /\ SrvIdle /\ GetIdle /\ calls = << >>
    /\ RxIdle /\ DohPoolIdle /\ DohIdle /\ PipeIdle /\ LockIdle
    /\ \E t \in Supported :
         cIn \in { [kind |-> "chunk", type |-> t, chunk |-> c] : c \in Chunks(t) }
    /\ cMid = << >> /\ cOut = [kind |-> "none"]

\* The server builds the record and the Querier hands its text to the client
EncodePayload ==
    /\ cIn.kind = "chunk" /\ cMid = << >>
    /\ cMid' = AnswerText(AnswerRR(cIn.type, cIn.chunk))
    /\ UNCHANGED << fs, rxVars, dohPoolVars, dq, pipeVars, lockVars,
                    srvVars, getVars, calls, cIn, cOut >>

\* The client decodes it as get does, into a buffer of MaxDecode bytes
DecodePayload ==
    /\ cIn.kind = "chunk" /\ cMid # << >> /\ cOut.kind = "none"
    /\ cOut' = [kind |-> "decoded",
                d |-> DecodeResponse(cIn.type, MaxDecode, cMid)]
    /\ UNCHANGED << fs, rxVars, dohPoolVars, dq, pipeVars, lockVars,
                    srvVars, getVars, calls, cIn, cMid >>

SpecPayload == PayloadInit /\ [][EncodePayload \/ DecodePayload]_vars

\* C7: decoding the record the server builds for a chunk gives the chunk
\* padded with zero bytes to 3 bytes (A) or 8 bytes (AAAA), or the chunk
\* itself (TXT).
C7_PayloadRoundTrip ==
    cOut.kind = "decoded"
        => /\ ~cOut.d.err
           /\ cOut.d.data =
                (CASE cIn.type = TypeA -> ZeroPad(cIn.chunk, 3)
                   [] cIn.type = TypeAAAA -> ZeroPad(cIn.chunk, 8)
                   [] cIn.type = TypeTXT -> cIn.chunk)
           /\ cOut.d.n = Len(cOut.d.data)
C7_Witness ==
    /\ cOut.kind = "decoded" /\ cIn.type = TypeAAAA
    /\ cIn.chunk = << 0, 0, 1, 0, 0 >>
    /\ cOut.d.data = << 0, 0, 1, 0, 0, 0, 0, 0 >>

\* The buffers a caller of DecodeResponse may bring for type t: of the size
\* PayloadSize gives, one byte less, of the size of the address, and of
\* MaxDecode bytes
BufLens(t) ==
    { PayloadSize(t).n - 1, PayloadSize(t).n, MaxDecode }
      \cup (CASE t = TypeA -> { 4 } [] t = TypeAAAA -> { 16 } [] OTHER -> { })

\* A caller with its own transport decodes the text into its own buffer
DecodeInto ==
    /\ cIn.kind = "chunk" /\ cMid # << >> /\ cOut.kind = "none"
    /\ \E n \in BufLens(cIn.type) :
         cOut' = [kind |-> "into", buflen |-> n,
                  d |-> DecodeResponse(cIn.type, n, cMid)]
    /\ UNCHANGED << fs, rxVars, dohPoolVars, dq, pipeVars, lockVars,
                    srvVars, getVars, calls, cIn, cMid >>

SpecDecodeInto == PayloadInit /\ [][EncodePayload \/ DecodeInto]_vars

\* The payload of the answer for the chunk in cIn
ExpectedPayload ==
    CASE cIn.type = TypeA -> ZeroPad(cIn.chunk, 3)
      [] cIn.type = TypeAAAA -> ZeroPad(cIn.chunk, 8)
      [] cIn.type = TypeTXT -> cIn.chunk

\* C17: a well-formed answer decodes into a buffer of exactly PayloadSize
\* bytes, and decoding fails for the buffer's size only when the buffer is
\* smaller than the decoded payload.
C17_PayloadSizeBufferSuffices ==
    cOut.kind = "into"
        => /\ cOut.buflen = PayloadSize(cIn.type).n
                => (~cOut.d.err /\ cOut.d.data = ExpectedPayload)
           /\ cOut.d.err => cOut.buflen < Len(ExpectedPayload)
\* What decodeA and decodeTXT do: the buffer must hold the whole address
\* (4 or 16 bytes) for A and AAAA, the decoded text for TXT
C17_AddressSizeBufferNeeded ==
    cOut.kind = "into"
        => /\ cOut.d.err
                <=> cOut.buflen <
                      (CASE cIn.type = TypeA -> 4
                         [] cIn.type = TypeAAAA -> 16
                         [] cIn.type = TypeTXT -> Len(cIn.chunk))
           /\ ~cOut.d.err => cOut.d.data = ExpectedPayload
C17_WitnessA ==
    /\ cOut.kind = "into" /\ cIn.type = TypeA /\ cOut.buflen = 3
    /\ cMid = << "3", ".", "1", ".", "2", "5", "5", ".", "0" >>
    /\ cOut.d.err

(***************************************************************************)
(* DNS over HTTPS (doh.go): the query message, the POST and the answer.    *)
(* A message is [RCode, Questions, Answers]; a record is [type, body, txt] *)
(* with a dnsmessage type number; an HTTP body is its length and what it   *)
(* holds.                                                                  *)
(***************************************************************************)
MaxPOSTBody == 65535

\* dnsmessage's type and class numbers
dnsTypeA == 1
dnsTypeMX == 15
dnsTypeTXT == 16
dnsTypeAAAA == 28
ClassINET == 1

NoVal == [kind |-> "none"]

\* AppendQuery, lines 220-230: the dnsmessage type of the question
QueryType(qtype) ==
    CASE qtype = TypeA -> dnsTypeA
      [] qtype = TypeAAAA -> dnsTypeA
      [] qtype = TypeTXT -> dnsTypeTXT
      [] OTHER -> 0

\* ParseDoHAnswer, lines 265-273: the dnsmessage type of the records wanted
FilterType(filt) ==
    CASE filt = TypeA -> dnsTypeA
      [] filt = TypeAAAA -> dnsTypeAAAA
      [] filt = TypeTXT -> dnsTypeTXT
      [] OTHER -> 0

\* AppendQuery: the query message for a name and a type, or an error.
\* dnsmessage.NewName refuses names longer than 255 bytes.
AppendQuery(qname, qtype) ==
    LET qn == IF HasSuffix(qname, ".") THEN qname
              ELSE qname \o << "." >>
    IN  IF qtype \notin Supported
        THEN [err |-> "unsupported", msg |-> NoVal]
        ELSE IF Len(qn) > 255 THEN [err |-> "name", msg |-> NoVal]
        ELSE [err |-> "nil",
              msg |-> [kind |-> "msg", RecursionDesired |-> TRUE,
                       Questions |-> << [Name |-> qn,
                                         Type |-> QueryType(qtype),
                                         Class |-> ClassINET] >>]]

\* io.ReadFull(res.Body, b) with b of MaxPOSTBody bytes: the bytes read and
\* the error.  failed: the transport fails before the end of the body.
ReadFull(body, failed) ==
    LET n == IF body.len < MaxPOSTBody THEN body.len ELSE MaxPOSTBody IN
    IF failed /\ body.len < MaxPOSTBody
    THEN [n |-> 0, err |-> "error"]
    ELSE IF n = MaxPOSTBody THEN [n |-> n, err |-> "nil"]
    ELSE IF n = 0 THEN [n |-> 0, err |-> "EOF"]
    ELSE [n |-> n, err |-> "ErrUnexpectedEOF"]

\* The POSTClient WrapPOST returns, given what the wrapped post function
\* does: the body returned, or an error.  The error of the post function is
\* wrapped with %w (line 190): notFound says that its chain holds a
\* *net.DNSError with IsNotFound set, as when the host of the URL has no
\* address.
WrapPOST(resp) ==
    LET r == ReadFull(resp.body, resp.readErr) IN
    IF resp.postErr
    THEN [err |-> "request", notFound |-> resp.notFound, body |-> NoVal]
    ELSE IF 200 < resp.status \/ 200 > resp.status
    THEN [err |-> "status", notFound |-> FALSE, body |-> NoVal]
    ELSE IF r.err # "nil" /\ r.err # "ErrUnexpectedEOF"
    THEN [err |-> "read", notFound |-> FALSE, body |-> NoVal]
    ELSE [err |-> "nil", notFound |-> FALSE,
          body |-> [len |-> r.n,
                    content |-> IF r.n = resp.body.len
                                THEN resp.body.content
                                ELSE [kind |-> "cut"]]]

\* Lines 305-322: the strings of the records of type mt, in record order
RECURSIVE ExtractRecords(_, _)
ExtractRecords(answers, mt) ==
    IF Len(answers) = 0 THEN << >>
    ELSE LET ans == answers[1]
             rest == ExtractRecords(Tail(answers), mt)
         IN  IF ans.type # mt THEN rest
             ELSE IF ans.type \in { dnsTypeA, dnsTypeAAAA }
             THEN << IPString(ans.body) >> \o rest
             ELSE IF ans.type = dnsTypeTXT THEN ans.txt \o rest
             ELSE rest

\* ParseDoHAnswer with every unsuccessful result code taken for name error
ParseDoHAnswerAllNotFound(ans, filt) ==
    IF ans.content.kind # "msg"
    THEN [err |-> "unpack", notFound |-> FALSE, name |-> << >>, ss |-> << >>]
    ELSE IF ans.content.RCode = "Success"
    THEN [err |-> "nil", notFound |-> FALSE, name |-> << >>,
          ss |-> ExtractRecords(ans.content.Answers, FilterType(filt))]
    ELSE [err |-> "notfound", notFound |-> TRUE,
          name |-> IF Len(ans.content.Questions) # 0
                   THEN ans.content.Questions[1].Name ELSE << >>,
          ss |-> << >>]

\* ParseDoHAnswer: the strings of the records of the type wanted, or an
\* error; notFound is the IsNotFound flag of a *net.DNSError
ParseDoHAnswer(ans, filt) ==
    IF ans.content.kind # "msg"
    THEN [err |-> "unpack", notFound |-> FALSE, name |-> << >>, ss |-> << >>]
    ELSE IF ans.content.RCode = "Success"
    THEN [err |-> "nil", notFound |-> FALSE, name |-> << >>,
          ss |-> ExtractRecords(ans.content.Answers, FilterType(filt))]
    ELSE IF ans.content.RCode = "NameError"
    THEN [err |-> "notfound", notFound |-> TRUE,
          name |-> IF Len(ans.content.Questions) # 0
                   THEN ans.content.Questions[1].Name ELSE << >>,
          ss |-> << >>]
    ELSE [err |-> "rcode", notFound |-> FALSE, name |-> << >>, ss |-> << >>]

\* What a DoH server may say: result codes, records and HTTP statuses
DohRCodes == { "Success", "NameError", "ServerFailure" }
rrA1 == [type |-> dnsTypeA, body |-> << 3, 65, 66, 67 >>, txt |-> << >>]
rrA2 == [type |-> dnsTypeA, body |-> << 3, 0, 0, 1 >>, txt |-> << >>]
rrAAAA ==
    [type |-> dnsTypeAAAA,
     body |-> ansAAAAFirstHalf \o << 65, 66, 67, 68, 0, 0, 0, 0 >>,
     txt |-> << >>]
rrMX == [type |-> dnsTypeMX, body |-> << >>, txt |-> << >>]
rrTXT1 ==
    [type |-> dnsTypeTXT, body |-> << >>, txt |-> << << "Q", "U", "J", "D" >> >>]
rrTXT2 ==
    [type |-> dnsTypeTXT, body |-> << >>,
     txt |-> << << "Q", "U", "J", "D" >>, << "R", "E", "V", "G" >> >>]
DohAnswers ==
    { << >>, << rrA1 >>, << rrAAAA, rrA1 >>, << rrMX, rrA2, rrA1 >>,
      << rrTXT1 >>, << rrTXT2 >>, << rrTXT2, rrA1, rrTXT1 >>,
      << rrA1, rrAAAA, rrTXT1 >> }
DohStatuses == { 199, 200, 201, 204, 299, 300, 404, 500 }

\* The response messages to a query message, its question echoed or not
DohMessages(qmsg) ==
    { [kind |-> "msg", RCode |-> rc, Questions |-> qs, Answers |-> as] :
        rc \in DohRCodes, qs \in { << >>, qmsg.Questions }, as \in DohAnswers }

\* The bodies of an HTTP response: a packed message, no body at all, bytes
\* that are no message, and bodies around the size of the buffer
DohBodies(qmsg) ==
    { [len |-> 64, content |-> m] : m \in DohMessages(qmsg) }
      \cup { [len |-> n, content |-> [kind |-> "garbage"]] :
               n \in { 0, 1, MaxPOSTBody - 1, MaxPOSTBody, MaxPOSTBody + 1 } }

\* What the post function does with a query: it fails, or there is a
\* response with a status and a body, which may fail to be read
DohResponses(qmsg) ==
    { [postErr |-> TRUE, notFound |-> nf, status |-> 0, readErr |-> FALSE,
       body |-> [len |-> 0, content |-> [kind |-> "garbage"]]] :
        nf \in BOOLEAN }
      \cup { [postErr |-> FALSE, notFound |-> FALSE, status |-> st,
               readErr |-> re, body |-> b] :
               st \in DohStatuses, re \in BOOLEAN, b \in DohBodies(qmsg) }

DohNames == { << "0", "-", "a", ".", "e" >>, << "8", "-", "a", ".", "e", "." >> }

\* What dohQuery returns, errors wrapped with %w
DohReturn(step, err, notFound, as) ==
    [step |-> step, err |-> err, notFound |-> notFound, as |-> as]

DohInit ==
    /\ fs = NoFile /\ SrvIdle /\ GetIdle /\ CodecIdle /\ calls = << >>
    /\ RxIdle /\ DohPoolIdle /\ DohIdle /\ PipeIdle /\ LockIdle

\* dohQuerier.A, AAAA and TXT (lines 129-141): dohQuery is called
DohCall ==
    /\ dq.pc \in { "idle", "done" }
    /\ \E name \in DohNames, qtype \in QTypes :
         dq' = [pc |-> "start", name |-> name, qtype |-> qtype,
                built |-> NoVal, http |-> NoVal, posted |-> NoVal,
                parsed |-> NoVal, ret |-> NoVal]
    /\ UNCHANGED << fs, rxVars, dohPoolVars,
                    srvVars, getVars, calls, codecVars, pipeVars,
                    lockVars >>

\* Lines 108-111: the query message is built
DohBuild ==
    /\ dq.pc = "start"
    /\ LET b == AppendQuery(dq.name, dq.qtype) IN
       dq' = IF b.err # "nil"
             THEN [dq EXCEPT !.pc = "done", !.built = b,
                     !.ret = DohReturn("generating", b.err, FALSE, << >>)]
             ELSE [dq EXCEPT !.pc = "query", !.built = b]
    /\ UNCHANGED << fs, rxVars, dohPoolVars,
                    srvVars, getVars, calls, codecVars, pipeVars,
                    lockVars >>

\* Lines 114-117: the query is posted
DohPost ==
    /\ dq.pc = "query"
    /\ \E resp \in DohResponses(dq.built.msg) :
         LET r == WrapPOST(resp) IN
         dq' = IF r.err # "nil"
               THEN [dq EXCEPT !.pc = "done", !.http = resp, !.posted = r,
                       !.ret = DohReturn("sending", r.err, r.notFound, << >>)]
               ELSE [dq EXCEPT !.pc = "answer", !.http = resp, !.posted = r]
    /\ UNCHANGED << fs, rxVars, dohPoolVars,
                    srvVars, getVars, calls, codecVars, pipeVars,
                    lockVars >>

\* Lines 121-125: the answer is parsed
DohParse ==
    /\ dq.pc = "answer"
    /\ LET a == ParseDoHAnswer(dq.posted.body, dq.qtype) IN
       dq' = IF a.err # "nil"
             THEN [dq EXCEPT !.pc = "done", !.parsed = a,
                     !.ret = DohReturn("parsing", a.err, a.notFound, << >>)]
             ELSE [dq EXCEPT !.pc = "done", !.parsed = a,
                     !.ret = DohReturn("", "nil", FALSE, a.ss)]
    /\ UNCHANGED << fs, rxVars, dohPoolVars,
                    srvVars, getVars, calls, codecVars, pipeVars,
                    lockVars >>

DohNext == DohCall \/ DohBuild \/ DohPost \/ DohParse
SpecDoH == DohInit /\ [][DohNext]_vars

\* The name of a question: the name asked for, fully qualified
DohQName == IF HasSuffix(dq.name, ".") THEN dq.name ELSE dq.name \o << "." >>

\* C13: the query message built for a name and a type A, AAAA or TXT has
\* exactly one question, of the type asked for, of class INET, with
\* RecursionDesired set; for any other type there is an unsupported-type
\* error and no message.
C13_QuestionOfRequestedType ==
    (dq.pc # "idle" /\ dq.built # NoVal)
        => IF dq.qtype \in Supported
           THEN /\ dq.built.err = "nil"
                /\ dq.built.msg.RecursionDesired
                /\ Len(dq.built.msg.Questions) = 1
                /\ dq.built.msg.Questions[1].Name = DohQName
                /\ dq.built.msg.Questions[1].Type = FilterType(dq.qtype)
                /\ dq.built.msg.Questions[1].Class = ClassINET
           ELSE dq.built.err = "unsupported" /\ dq.built.msg = NoVal
\* The same for every type but AAAA
C13_ExceptAAAA ==
    (dq.pc # "idle" /\ dq.qtype # TypeAAAA) => C13_QuestionOfRequestedType
C13_AAAAWitness ==
    /\ dq.pc = "query" /\ dq.qtype = TypeAAAA /\ dq.built.err = "nil"
    /\ dq.built.msg.Questions[1].Type = dnsTypeA

\* The answer was parsed and was a message
DohParsed ==
    /\ dq.pc = "done" /\ dq.parsed # NoVal
    /\ dq.posted.body.content.kind = "msg"
DohMsg == dq.posted.body.content

\* C14: a name-error response gives the not-found error with the name of
\* the first question, if there is one, and no answers; a success response
\* gives no error; any other result code gives an error that is not flagged
\* not-found.
C14_RCodeOutcome ==
    DohParsed
        => CASE DohMsg.RCode = "NameError" ->
                  /\ dq.parsed.err # "nil" /\ dq.parsed.notFound
                  /\ dq.parsed.ss = << >>
                  /\ dq.parsed.name =
                       (IF Len(DohMsg.Questions) > 0
                        THEN DohMsg.Questions[1].Name ELSE << >>)
             [] DohMsg.RCode = "Success" -> dq.parsed.err = "nil"
             [] OTHER -> dq.parsed.err # "nil" /\ ~dq.parsed.notFound
C14_Witness ==
    /\ DohParsed /\ DohMsg.RCode = "ServerFailure"
    /\ Len(DohMsg.Answers) > 0 /\ dq.parsed.err = "rcode"
    /\ ~dq.ret.notFound
C14_NameErrorWitness ==
    /\ DohParsed /\ DohMsg.RCode = "NameError" /\ dq.parsed.notFound
    /\ dq.parsed.name = << "0", "-", "a", ".", "e", "." >>

\* The text of a record: the address, or the character-strings of a TXT
\* record one after the other
RecordText(rr) ==
    IF rr.type = dnsTypeTXT THEN Concat(rr.txt) ELSE IPString(rr.body)
RECURSIVE MatchingTexts(_, _)
MatchingTexts(answers, mt) ==
    IF Len(answers) = 0 THEN << >>
    ELSE (IF answers[1].type = mt THEN << RecordText(answers[1]) >>
          ELSE << >>) \o MatchingTexts(Tail(answers), mt)
\* Every character-string of the matching records, each on its own
RECURSIVE MatchingStrings(_, _)
MatchingStrings(answers, mt) ==
    IF Len(answers) = 0 THEN << >>
    ELSE (IF answers[1].type # mt THEN << >>
          ELSE IF mt = dnsTypeTXT THEN answers[1].txt
          ELSE << IPString(answers[1].body) >>)
           \o MatchingStrings(Tail(answers), mt)

\* C15: for a success response the result is, in record order, one string
\* per record of the type asked for (none when no record matches, with no
\* error), the character-strings of a TXT record concatenated.
C15_MatchingRecords ==
    (DohParsed /\ DohMsg.RCode = "Success")
        => /\ dq.parsed.err = "nil"
           /\ dq.parsed.ss = MatchingTexts(DohMsg.Answers, FilterType(dq.qtype))
\* The same with every character-string of a TXT record on its own
C15_MatchingCharacterStrings ==
    (DohParsed /\ DohMsg.RCode = "Success")
        => /\ dq.parsed.err = "nil"
           /\ dq.parsed.ss =
                MatchingStrings(DohMsg.Answers, FilterType(dq.qtype))
C15_TwoStringsWitness ==
    /\ DohParsed /\ DohMsg.RCode = "Success" /\ dq.qtype = TypeTXT
    /\ DohMsg.Answers = << rrTXT2 >>
    /\ dq.parsed.ss = << << "Q", "U", "J", "D" >>, << "R", "E", "V", "G" >> >>

\* The post function answered and the body could be read
DohPosted ==
    /\ dq.pc \in { "answer", "done" } /\ dq.posted # NoVal
    /\ ~dq.http.postErr /\ ~dq.http.readErr

\* C16: the POST wrapper succeeds exactly for the statuses 200..299, and
\* then returns the body, at most MaxPOSTBody bytes of it.
C16_Any2xxSucceeds ==
    DohPosted
        => /\ dq.posted.err = "nil" <=> dq.http.status \in 200..299
           /\ dq.posted.err = "nil"
                => dq.posted.body.len =
                     (IF dq.http.body.len < MaxPOSTBody
                      THEN dq.http.body.len ELSE MaxPOSTBody)
\* What the wrapper does: success exactly for status 200 with a body
C16_Only200WithBody ==
    DohPosted
        => /\ dq.posted.err = "nil"
                <=> (dq.http.status = 200 /\ dq.http.body.len > 0)
           /\ dq.posted.err = "nil"
                => dq.posted.body.len =
                     (IF dq.http.body.len < MaxPOSTBody
                      THEN dq.http.body.len ELSE MaxPOSTBody)
C16_Witness204 ==
    /\ DohPosted /\ dq.http.status = 204 /\ dq.http.body.len = 64
    /\ dq.posted.err = "status" /\ dq.ret.step = "sending"

(***************************************************************************)
(* bufPool, getBuf and putBuf, and the buffers of concurrent dohQuery      *)
(* calls.  An array is known by a number and its capacity; a slice is an   *)
(* array and a length (every slice here starts where its array starts).    *)
(* The POSTClient is one made by WrapPOST, or a function of the program's  *)
(* own that returns its response in an array it has made.                  *)
(*   pc = "call"   dohQuery is called (line 101)                           *)
(*        "build"  qb is taken, AppendQuery next (line 108)                *)
(*        "post"   d.post is called (line 114)                             *)
(*        "read"   WrapPOST has taken b, io.ReadFull next (line 201)       *)
(*        "parse"  d.post has returned res (line 118)                      *)
(*        "done"   dohQuery has returned                                   *)
(***************************************************************************)
MaxQueries == 2
DohCaps == { MaxPOSTBody - 1, MaxPOSTBody, MaxPOSTBody + 1 }
DohArrays ==
    { [n |-> n, cap |-> c] : n \in 1..(2 * MaxQueries), c \in DohCaps }
NoArray == [n |-> 0, cap |-> 0]
\* The nil slice
NoSlice == [arr |-> NoArray, len |-> 0]

\* What the wrapped post function does before the body is read
PoolResponses ==
    { [postErr |-> pe, status |-> st] :
        pe \in BOOLEAN, st \in { 200, 204, 404 } }
\* The bodies io.ReadFull meets
PoolBodies ==
    { [len |-> n, content |-> [kind |-> "garbage"]] :
        n \in { 0, 64, MaxPOSTBody + 1 } }

\* The arrays the dohQuery calls hold
DohHeld ==
    UNION { { dohs[i].qb.arr, dohs[i].b.arr, dohs[i].res.arr } :
              i \in DOMAIN dohs } \ { NoArray }
\* make([]byte, c): the first array of capacity c not in use
NewArrays(c) ==
    LET free == { a \in DohArrays :
                    a.cap = c /\ bufPool[a] = 0 /\ a \notin DohHeld }
    IN  { a \in free : \A x \in free : a.n <= x.n }

\* Lines 44-52, getBuf: buffers are taken from the pool, which makes a new
\* one of MaxPOSTBody bytes when it finds none, until one is large enough;
\* the smaller ones met on the way are left to the garbage collector.
\* The results: the slice returned and the pool afterwards.
getBuf ==
    LET small == { a \in DohArrays : bufPool[a] > 0 /\ a.cap < MaxPOSTBody }
        large == { a \in DohArrays : bufPool[a] > 0 /\ a.cap >= MaxPOSTBody }
    IN  { [buf |-> [arr |-> a, len |-> MaxPOSTBody],
           pool |-> [x \in DohArrays |->
                       IF x = a \/ x \in gone
                       THEN (IF bufPool[x] > 0 THEN bufPool[x] - 1 ELSE 0)
                       ELSE bufPool[x]]] :
            a \in large \cup NewArrays(MaxPOSTBody), gone \in SUBSET small }

\* putBuf keeping every buffer of MaxPOSTBody bytes or more
putBufAtLeast(pool, sl) ==
    IF MaxPOSTBody > sl.arr.cap THEN pool ELSE PoolPut(pool, sl.arr)

\* Lines 55-60, putBuf: the pool after putBuf(sl)
putBuf(pool, sl) ==
    IF MaxPOSTBody # sl.arr.cap THEN pool ELSE PoolPut(pool, sl.arr)

\* A dohQuery call: the slices qb (of dohQuery), b (of WrapPOST) and res,
\* and, once it has returned, the capacity of the response it has handed
\* to putBuf (0 for none)
NoQuery ==
    [pc |-> "done", qb |-> NoSlice, b |-> NoSlice, res |-> NoSlice,
     put |-> 0]

DohPoolInit ==
    /\ fs = NoFile /\ SrvIdle /\ GetIdle /\ CodecIdle /\ calls = << >>
    /\ RxIdle /\ DohIdle /\ PipeIdle /\ LockIdle
    /\ bufPool = [a \in DohArrays |-> 0]
    /\ dohs = [i \in 1..MaxQueries |-> NoQuery]

\* dohQuery returning with the response put into the pool twice
DqReturnedPutsTwice(i) ==
    /\ bufPool' = putBuf(putBuf(putBuf(bufPool, dohs[i].res), dohs[i].res),
                         dohs[i].qb)
    /\ dohs' = [dohs EXCEPT ![i] =
                  [NoQuery EXCEPT !.put = dohs[i].res.arr.cap]]

\* dohQuery returns for call i: the deferred putBuf(res) and putBuf(qb) run
DqReturned(i) ==
    /\ bufPool' = putBuf(putBuf(bufPool, dohs[i].res), dohs[i].qb)
    /\ dohs' = [dohs EXCEPT ![i] =
                  [NoQuery EXCEPT !.put = dohs[i].res.arr.cap]]

\* Lines 129-141: A, AAAA or TXT of a dohQuerier is called
DqCall(i) ==
    /\ i \in DOMAIN dohs /\ dohs[i].pc = "done"
    /\ dohs' = [dohs EXCEPT ![i] = [NoQuery EXCEPT !.pc = "call"]]
    /\ UNCHANGED << fs, srvVars, getVars, calls, codecVars, dq, pipeVars,
                    lockVars, rxVars, bufPool >>

\* Lines 103-104: qb := getBuf()
DqGetBuf(i) ==
    /\ i \in DOMAIN dohs /\ dohs[i].pc = "call"
    /\ \E r \in getBuf :
         /\ bufPool' = r.pool
         /\ dohs' = [dohs EXCEPT ![i].pc = "build", ![i].qb = r.buf]
    /\ UNCHANGED << fs, srvVars, getVars, calls, codecVars, dq, pipeVars,
                    lockVars, rxVars >>

\* Lines 107-111: the query, of whatever type the call is for, is packed
\* into qb; dohQuery returns if it cannot be
DqBuild(i) ==
    /\ i \in DOMAIN dohs /\ dohs[i].pc = "build"
    /\ \E name \in DohNames, qtype \in QTypes :
         IF AppendQuery(name, qtype).err # "nil"
         THEN DqReturned(i)
         ELSE /\ dohs' = [dohs EXCEPT ![i].pc = "post"]
              /\ UNCHANGED bufPool
    /\ UNCHANGED << fs, srvVars, getVars, calls, codecVars, dq, pipeVars,
                    lockVars, rxVars >>

\* Lines 114-117 and 180-200: the POSTClient of WrapPOST posts the query;
\* it returns an error, or takes a buffer for the body
DqPostWrap(i) ==
    /\ i \in DOMAIN dohs /\ dohs[i].pc = "post"
    /\ \E resp \in PoolResponses :
         IF resp.postErr \/ 200 < resp.status \/ 200 > resp.status
         THEN DqReturned(i)
         ELSE \E r \in getBuf :
                /\ bufPool' = r.pool
                /\ dohs' = [dohs EXCEPT ![i].pc = "read", ![i].b = r.buf]
    /\ UNCHANGED << fs, srvVars, getVars, calls, codecVars, dq, pipeVars,
                    lockVars, rxVars >>

\* Lines 201-211: the body is read into b; on an error b is put back and
\* dohQuery returns, else b[:n] is the response
DqReadFull(i) ==
    /\ i \in DOMAIN dohs /\ dohs[i].pc = "read"
    /\ \E body \in PoolBodies, failed \in BOOLEAN :
         LET r == ReadFull(body, failed) IN
         IF r.err # "nil" /\ r.err # "ErrUnexpectedEOF"
         THEN /\ bufPool' = putBuf(putBuf(bufPool, dohs[i].b), dohs[i].qb)
              /\ dohs' = [dohs EXCEPT ![i] =
                            [NoQuery EXCEPT !.put = dohs[i].b.arr.cap]]
         ELSE /\ dohs' = [dohs EXCEPT ![i] =
                            [@ EXCEPT !.pc = "parse", !.b = NoSlice,
                                      !.res = [arr |-> dohs[i].b.arr,
                                               len |-> r.n]]]
              /\ UNCHANGED bufPool
    /\ UNCHANGED << fs, srvVars, getVars, calls, codecVars, dq, pipeVars,
                    lockVars, rxVars >>

\* Lines 114-117 with a POSTClient of the program's own: an error, or a
\* response in an array the client has made, of whatever capacity
DqPostOwn(i) ==
    /\ i \in DOMAIN dohs /\ dohs[i].pc = "post"
    /\ \/ DqReturned(i)
       \/ \E c \in DohCaps : \E a \in NewArrays(c) :
            /\ dohs' = [dohs EXCEPT ![i].pc = "parse",
                                    ![i].res = [arr |-> a, len |-> 64]]
            /\ UNCHANGED bufPool
    /\ UNCHANGED << fs, srvVars, getVars, calls, codecVars, dq, pipeVars,
                    lockVars, rxVars >>

\* Lines 118-125: the response is parsed and dohQuery returns
DqParse(i) ==
    /\ i \in DOMAIN dohs /\ dohs[i].pc = "parse"
    /\ DqReturned(i)
    /\ UNCHANGED << fs, srvVars, getVars, calls, codecVars, dq, pipeVars,
                    lockVars, rxVars >>

DohPoolNext ==
    \E i \in 1..MaxQueries :
        \/ DqCall(i) \/ DqGetBuf(i) \/ DqBuild(i) \/ DqPostWrap(i)
        \/ DqReadFull(i) \/ DqPostOwn(i) \/ DqParse(i)
SpecDohPool == DohPoolInit /\ [][DohPoolNext]_vars

\* The server's process or the client's, each with its pool
PoolsInit == RxInit \/ DohPoolInit
PoolsNext == RxNext \/ DohPoolNext
SpecPools == PoolsInit /\ [][PoolsNext]_vars

\* The dohQuery calls that hold array a
DohHolders(a) ==
    { i \in DOMAIN dohs :
        a \in { dohs[i].qb.arr, dohs[i].b.arr, dohs[i].res.arr } }

\* C23: a buffer is with one task at most, and is not both in its pool and
\* with a task (nor in the pool twice): the packet buffers of main and the
\* handler goroutines, and the request and response buffers of concurrent
\* dohQuery calls.
C23_ExclusiveOwnership ==
    /\ \A b \in DOMAIN bufpool :
         Cardinality(BufHolders(b)) + bufpool[b] <= 1
    /\ \A a \in DOMAIN bufPool :
         Cardinality(DohHolders(a)) + bufPool[a] <= 1
\* The loop and both handlers hold a buffer each, one of them taken from
\* the pool a handler had put it into
C23_Witness ==
    /\ main.pc = "read" /\ main.buf = 1
    /\ \A h \in DOMAIN hands : hands[h].buf \notin { 0, 1 }
    /\ DOMAIN hands # { }
\* One dohQuery call holds a request and a response buffer, another its
\* request buffer, and a buffer lies in the pool
C23_DohWitness ==
    /\ DOMAIN dohs # { }
    /\ dohs[1].pc = "parse" /\ dohs[1].res.arr.cap = MaxPOSTBody
    /\ dohs[2].pc = "build"
    /\ \E a \in DOMAIN bufPool : bufPool[a] = 1

\* C24: every buffer in bufPool has a capacity of MaxPOSTBody (a buffer
\* putBuf was given with another capacity is not in it), and every slice
\* getBuf has handed out has MaxPOSTBody for its length and its capacity.
C24_PoolSizing ==
    /\ \A a \in DOMAIN bufPool : bufPool[a] > 0 => a.cap = MaxPOSTBody
    /\ \A i \in DOMAIN dohs :
         /\ \A sl \in { dohs[i].qb, dohs[i].b } \ { NoSlice } :
              sl.len = MaxPOSTBody /\ sl.arr.cap = MaxPOSTBody
\* A response of one byte too many has been dropped, one of the right
\* capacity made by a client is in the pool, and a buffer is handed out
C24_Witness ==
    /\ DOMAIN dohs # { }
    /\ dohs[1].pc = "done" /\ dohs[1].put = MaxPOSTBody + 1
    /\ dohs[2].pc = "build"
    /\ \E a \in DOMAIN bufPool : bufPool[a] = 1

(***************************************************************************)
(* A Getter whose Querier is a dohQuerier.                                 *)
(***************************************************************************)
\* dohQuery, lines 101-126, as one call: what it returns for a name and a
\* type when the post function does resp
dohQuery(name, qtype, resp) ==
    LET b == AppendQuery(name, qtype)
        r == WrapPOST(resp)
        a == ParseDoHAnswer(r.body, qtype)
    IN  IF b.err # "nil" THEN DohReturn("generating", b.err, FALSE, << >>)
        ELSE IF r.err # "nil"
        THEN DohReturn("sending", r.err, r.notFound, << >>)
        ELSE IF a.err # "nil"
        THEN DohReturn("parsing", a.err, a.notFound, << >>)
        ELSE DohReturn("", "nil", FALSE, a.ss)

\* What the post function may do with a query of the Getter
DohGetResponses(qmsg) ==
    { r \in DohResponses(qmsg) :
        /\ r.status \in { 0, 200, 500 }
        /\ r.body.len \in { 0, 1, 64 }
        /\ r.body.content.kind = "msg"
             => /\ r.body.content.Questions = qmsg.Questions
                /\ r.body.content.Answers
                     \in { << >>, << rrA1 >>, << rrAAAA, rrA1 >>,
                           << rrTXT1 >> } }

DohGetInit ==
    /\ fs = NoFile
    /\ \E t \in QTypes, m \in { 0, 4 } :
         g = NewGetter(t, ServedName, << "e" >>, 0, m)
    /\ GetReady
    /\ SrvIdle /\ CodecIdle /\ calls = << >>
    /\ RxIdle /\ DohPoolIdle /\ DohIdle /\ PipeIdle /\ LockIdle

\* Lines 135-141 with a dohQuerier: A, AAAA or TXT returns what dohQuery
\* returns.  The error is looked at with errors.As at line 148, which goes
\* down the chain of wrapped errors.  After MaxChunks + 1 queries the post
\* function answers no more.
DohQuerierAnswers ==
    /\ pc = "query" /\ Len(hist) <= MaxChunks
    /\ \E resp \in DohGetResponses(AppendQuery(q, g.Type).msg) :
         LET ret == dohQuery(q, g.Type, resp) IN
         /\ res' = [kind |-> IF ret.err = "nil" THEN "answers"
                             ELSE IF ret.notFound THEN "notfound"
                             ELSE "error",
                    as |-> ret.as, ret |-> ret, http |-> resp]
         /\ hist' = Append(hist, [q |-> q, res |-> res'])
    /\ pc' = "answer"
    /\ UNCHANGED << fs, rxVars, dohPoolVars, dq, pipeVars, lockVars,
                    srvVars, g, max0, umax, q, wbuf, stream, pwErr, rd,
                    calls, codecVars >>

DohGetNext == Get \/ GetQuery \/ DohQuerierAnswers \/ GetAnswer \/ PipeRead
SpecDohGet == DohGetInit /\ [][DohGetNext]_vars

\* The response to the last query of a finished transfer
LastHttp == hist[Len(hist)].res.http
\* A DoH response that arrived whole, with the result code rc
DohSays(resp, rc) ==
    /\ ~resp.postErr /\ resp.status = 200 /\ ~resp.readErr
    /\ resp.body.content.kind = "msg" /\ resp.body.content.RCode = rc
\* The POST failed, or the body could not be read or is no DNS message
DohFailed(resp) ==
    \/ resp.postErr \/ resp.status # 200 \/ resp.readErr
    \/ resp.body.content.kind # "msg"

\* C27: with a dohQuerier, a DoH response with the result code name error
\* closes the stream without error; a response with another code that is
\* not success, a failed POST and a body that is no message close it with
\* an error.
C27_DohEndOfFile ==
    (pc = "done" /\ Len(hist) > 0)
        => /\ DohSays(LastHttp, "NameError") => pwErr = "EOF"
           /\ (DohSays(LastHttp, "ServerFailure") \/ DohFailed(LastHttp))
                 => pwErr = "error"
\* The same, but for a POST that failed with a not-found DNS error
C27_ExceptHostNotFound ==
    (pc = "done" /\ Len(hist) > 0
        /\ ~(LastHttp.postErr /\ LastHttp.notFound))
        => /\ DohSays(LastHttp, "NameError") => pwErr = "EOF"
           /\ (DohSays(LastHttp, "ServerFailure") \/ DohFailed(LastHttp))
                 => pwErr = "error"
\* A chunk has been read, the next POST fails because the host of the URL
\* is not found, and the stream is closed as if the file had ended
C27_HostNotFoundWitness ==
    /\ pc = "done" /\ Len(hist) = 2 /\ Len(stream) > 0
    /\ LastHttp.postErr /\ LastHttp.notFound
    /\ pwErr = "EOF"
\* The DoH server says name error and the stream is closed without error
C27_NameErrorWitness ==
    /\ pc = "done" /\ Len(hist) = 2 /\ Len(stream) > 0
    /\ DohSays(LastHttp, "NameError") /\ pwErr = "EOF"

====
